---- MODULE Spec2Model ----
(***************************************************************************)
(* The LLM provider routing layer of src/common/llm: ProviderStats,        *)
(* LLMManager (initialize, generate, provider ordering, admission control) *)
(* and the re-chunking stream of GeminiProvider.                           *)
(*                                                                         *)
(* Time is counted in ticks of the wall clock; MinuteTicks ticks make the  *)
(* one-minute rate window and DayTicks ticks make a calendar day.  Costs   *)
(* and latencies are integers; the load-balancing score, a float in the    *)
(* code, is an exact fraction here and compared by cross-multiplication.   *)
(***************************************************************************)
EXTENDS Integers, Sequences, FiniteSets, TLC

\* ---------------------------------------------------------------- bounds
MinuteTicks == 2
DayTicks == 4
MaxCalls == 1
BigRate == 5
CostCap == 2
MaxChunks == 1
MaxWords == 11
MaxL == 2
MaxChanges == 1
MaxRecords == 2
MaxRetries == 4
MaxOrder == 3
MaxRequests == 4

\* the clock starts one minute into day 0 and runs to the start of day 1
StartTime == MinuteTicks
MaxTime == DayTicks

\* ProviderConfig.timeout, 30 seconds, in ticks
Timeout == MinuteTicks \div 2

\* ------------------------------------------------------ program constants
WindowCap == 100
HealthMinRequests == 10
DefaultLatency == 1000
ChunkWords == 5

None == "None"
Providers == {"openai", "gemini", "claude"}
ProviderClasses == Providers
ConfigOrder == <<"openai", "gemini", "claude">>
Tasks == {"t1", "t2"}

\* ------------------------------------------------------------ sequences
Range(s) == {s[i] : i \in DOMAIN s}

Min(S) == CHOOSE x \in S : \A y \in S : x <= y

Last(s) == s[Len(s)]

IsPermOf(s, base) ==
    /\ Len(s) = Len(base)
    /\ Range(s) = Range(base)
    /\ \A i, j \in DOMAIN s : i # j => s[i] # s[j]

PermsOf(base) == {s \in [1..Len(base) -> Range(base)] : IsPermOf(s, base)}

\* ------------------------------------------------------- ProviderStats
Date(t) == t \div DayTicks

FreshStats(t) ==
    [requests |-> 0, successes |-> 0, failures |-> 0,
     total_cost |-> 0, total_latency |-> 0, daily_cost |-> 0,
     last_reset |-> Date(t), recent_requests |-> <<>>]

\* deque(maxlen=100).append
DequeAppend(q, x) ==
    IF Len(q) >= WindowCap THEN Append(Tail(q), x) ELSE Append(q, x)

\* (variant: the daily bucket is never emptied)
RecordNoReset(s, success, latency, cost, t) ==
    LET q == [s EXCEPT !.requests = @ + 1,
                       !.recent_requests = DequeAppend(@, t)]
    IN  IF success
        THEN [q EXCEPT !.successes = @ + 1,
                       !.total_latency = @ + latency,
                       !.total_cost = @ + cost,
                       !.daily_cost = @ + cost]
        ELSE [q EXCEPT !.failures = @ + 1]

\* record_request(success, latency, cost) evaluated at wall-clock time t
record_request(s, success, latency, cost, t) ==
    LET r == IF Date(t) > s.last_reset
             THEN [s EXCEPT !.daily_cost = 0, !.last_reset = Date(t)]
             ELSE s
        q == [r EXCEPT !.requests = @ + 1,
                       !.recent_requests = DequeAppend(@, t)]
    IN  IF success
        THEN [q EXCEPT !.successes = @ + 1,
                       !.total_latency = @ + latency,
                       !.total_cost = @ + cost,
                       !.daily_cost = @ + cost]
        ELSE [q EXCEPT !.failures = @ + 1]

\* (variant: the comparison with one_minute_ago is turned around)
GetRateOlder(s, t) ==
    Cardinality({i \in DOMAIN s.recent_requests :
                    s.recent_requests[i] < t - MinuteTicks})

get_current_rate(s, t) ==
    Cardinality({i \in DOMAIN s.recent_requests :
                    s.recent_requests[i] > t - MinuteTicks})

\* success_rate < 1/10, the rate being successes/requests or 1.0
LowSuccessRate(s) ==
    /\ s.requests # 0
    /\ 10 * s.successes < s.requests

\* ------------------------------------------------- admission control
\* (variant: the breaker opens one request late)
CanUseLateBreaker(s, c, t) ==
    /\ ~ (get_current_rate(s, t) >= c.rate_limit)
    /\ ~ (c.cost_limit_per_day # 0 /\ s.daily_cost >= c.cost_limit_per_day)
    /\ ~ (s.requests > HealthMinRequests + 1 /\ LowSuccessRate(s))

\* (variant: the rate check lets a provider at its limit through)
CanUseAtLimit(s, c, t) ==
    /\ ~ (get_current_rate(s, t) > c.rate_limit)
    /\ ~ (c.cost_limit_per_day # 0 /\ s.daily_cost >= c.cost_limit_per_day)
    /\ ~ (s.requests > HealthMinRequests /\ 10 * s.successes < s.requests)

_can_use_provider(s, c, t) ==
    /\ ~ (get_current_rate(s, t) >= c.rate_limit)
    /\ ~ (c.cost_limit_per_day # 0 /\ s.daily_cost >= c.cost_limit_per_day)
    /\ ~ (s.requests > HealthMinRequests /\ LowSuccessRate(s))

\* ------------------------------------------------- lazily created stats
\* self.stats is a defaultdict(ProviderStats): an entry is made on first use
StatsOf(st, p, t) == IF p \in DOMAIN st THEN st[p] ELSE FreshStats(t)

Touch(st, S, t) == [p \in (DOMAIN st) \cup S |-> StatsOf(st, p, t)]

\* ------------------------------------------------------ provider order
\* The score (success_rate*100) - (avg_latency/10) - (current_rate/rate_limit*50)
\* as the fraction ScoreNum/ScoreDen.
SuccessRateNum(s) == IF s.requests = 0 THEN 1 ELSE s.successes
SuccessRateDen(s) == IF s.requests = 0 THEN 1 ELSE s.requests

\* (variant: an average of 0 is scored as it is)
LatencyNumPlain(s) ==
    IF s.successes = 0 THEN 0 ELSE s.total_latency

\* stats.avg_latency or 1000: an average of 0 is replaced by the default
LatencyNum(s) ==
    IF s.successes = 0 \/ s.total_latency = 0 THEN DefaultLatency
    ELSE s.total_latency
LatencyDen(s) ==
    IF s.successes = 0 \/ s.total_latency = 0 THEN 1 ELSE s.successes

ScoreDen(s, c) == SuccessRateDen(s) * 10 * LatencyDen(s) * c.rate_limit

ScoreNum(s, c, t) ==
      100 * SuccessRateNum(s) * 10 * LatencyDen(s) * c.rate_limit
    - LatencyNum(s) * SuccessRateDen(s) * c.rate_limit
    - 50 * get_current_rate(s, t) * SuccessRateDen(s) * 10 * LatencyDen(s)

ScoreGE(s1, c1, s2, c2, t) ==
    ScoreNum(s1, c1, t) * ScoreDen(s2, c2) >= ScoreNum(s2, c2, t) * ScoreDen(s1, c1)

\* (variant: the sort is not reversed)
BalancedAscending(avail, st, cfgp, t) ==
    {o \in PermsOf(avail) :
        \A i, j \in DOMAIN o :
            i < j => ScoreGE(StatsOf(st, o[j], t), cfgp[o[j]],
                             StatsOf(st, o[i], t), cfgp[o[i]], t)}

\* scores.sort(key=(score, random()), reverse=True): every arrangement by
\* non-increasing score, equal scores in any order
_get_load_balanced_order(avail, st, cfgp, t) ==
    {o \in PermsOf(avail) :
        \A i, j \in DOMAIN o :
            i < j => ScoreGE(StatsOf(st, o[i], t), cfgp[o[i]],
                             StatsOf(st, o[j], t), cfgp[o[j]], t)}

InSeq(x, s) == \E i \in DOMAIN s : s[i] = x

\* (variant: the providers after the preferred one are load balanced)
PreferredThenBalanced(pref, avail, cfg, st, t) ==
    IF pref # None /\ InSeq(pref, avail)
    THEN IF cfg.load_balancing
         THEN {<<pref>> \o o :
                  o \in _get_load_balanced_order(
                            SelectSeq(avail, LAMBDA p : p # pref),
                            st, cfg.providers, t)}
         ELSE {<<pref>> \o SelectSeq(avail, LAMBDA p : p # pref)}
    ELSE IF cfg.load_balancing
    THEN _get_load_balanced_order(avail, st, cfg.providers, t)
    ELSE LET listed == SelectSeq(cfg.fallback_order, LAMBDA p : InSeq(p, avail))
         IN  {listed \o SelectSeq(avail, LAMBDA p : ~ InSeq(p, listed))}

_get_provider_order(pref, avail, cfg, st, t) ==
    IF pref # None /\ InSeq(pref, avail)
    THEN {<<pref>> \o SelectSeq(avail, LAMBDA p : p # pref)}
    ELSE IF cfg.load_balancing
    THEN _get_load_balanced_order(avail, st, cfg.providers, t)
    ELSE LET listed == SelectSeq(cfg.fallback_order, LAMBDA p : InSeq(p, avail))
         IN  {listed \o SelectSeq(avail, LAMBDA p : ~ InSeq(p, listed))}

\* ------------------------------------------------------ adapter results
NoUsage == -1
\* usage present, its estimated_cost left at the default None
NoCost == -2
Costs == {1}
Latencies == {20}
ErrMsgs == {"timeout"}
ExcMsgs == {"malformed"}
NoError == <<>>

\* what one await of provider.generate(request) can give back
GenerateOutcomes ==
         [kind : {"success"}, usage : {NoUsage} \cup Costs,
          latency : Latencies, msg : {None}]
    \cup [kind : {"error"}, usage : {NoUsage}, latency : {0}, msg : ErrMsgs]
    \cup [kind : {"exception"}, usage : {NoUsage}, latency : {0}, msg : ExcMsgs]

\* what one await of provider.initialize() can give back
InitOutcomes == {"true", "false", "raise"}

LLMResponse(p, content, err) ==
    [kind |-> "response", provider |-> p, content |-> content, error |-> err]

Raised(exc) ==
    [kind |-> "raised", provider |-> None, content |-> "", error |-> <<exc>>]

NoResult == [kind |-> "none", provider |-> None, content |-> "", error |-> NoError]

\* a chunk as stream_generate hands it to its consumer: src is the adapter it
\* came from, or "manager" for a chunk the manager makes itself
LLMStreamChunk(src, final, err) == [src |-> src, is_final |-> final, error |-> err]

\* what one step of iterating provider.stream_generate(request) can give
\* back: a chunk that is not final, a final chunk without or with an error in
\* its metadata, the end of the iteration, or an exception
StreamOutcomes ==
         [kind : {"chunk", "final", "end"}, latency : Latencies, msg : {None}]
    \cup [kind : {"final"}, latency : Latencies, msg : ErrMsgs]
    \cup [kind : {"raise"}, latency : {0}, msg : ExcMsgs]

\* ------------------------------------------------------------- state
VARIABLES
    now,             \* wall clock, in ticks
    config,          \* LLMConfig: providers with the order of their keys,
                     \* fallback_order, load_balancing; version counts the
                     \* changes made at runtime
    providers,       \* LLMManager.providers: registered names, insertion order
    stats,           \* LLMManager.stats: name -> ProviderStats
    is_initialized,  \* LLMManager.is_initialized
    lock,            \* holder of LLMManager._lock, or None
    task,            \* per caller: position in generate and its locals
    calls,           \* number of generate calls started
    budget,          \* number of generate calls the callers make
    served,          \* log of the calls that returned
    gen,             \* one run of GeminiProvider.stream_generate
    pstats,          \* one ProviderStats object and the last call of its
                     \* record_request
    retry,           \* one run of BaseProvider._retry_with_backoff
    limiter          \* one adapter's BaseProvider rate limiting and its callers

vars == <<now, config, providers, stats, is_initialized, lock, task, calls,
          budget, served, gen, pstats, retry, limiter>>

\* the manager and the ProviderStats object, which the runs of a single
\* adapter function leave alone
mgr == <<now, config, providers, stats, is_initialized, lock, task, calls,
         budget, served, pstats>>

IdleTask ==
    [pc |-> "idle", op |-> None, pref |-> None, order |-> <<>>, idx |-> 0,
     last_error |-> None, initq |-> <<>>, attempts |-> <<>>,
     chunks |-> <<>>, chunk_count |-> 0,
     skipped |-> {}, stats0 |-> << >>, routed_at |-> 0, result |-> NoResult,
     start_time |-> 0, init_log |-> <<>>, started |-> 0,
     waited |-> FALSE, config0 |-> None,
     report |-> << >>, names |-> <<>>]

ProviderConfig(rl, cl, pr) ==
    [enabled |-> TRUE, rate_limit |-> rl, cost_limit_per_day |-> cl, priority |-> pr]

\* load_from_env: priorities 1, 2, 3 and fallback_order sorted by priority
EnvOrder == <<"openai", "gemini", "claude">>
FallbackOrders == {EnvOrder, <<"claude", "openai">>}

BaseProviders ==
    [p \in Providers |->
        CASE p = "openai" -> ProviderConfig(1, CostCap, 1)
          [] p = "gemini" -> ProviderConfig(2, 0, 2)
          [] OTHER -> ProviderConfig(BigRate, 0, 3)]

\* Earlier traffic of a provider, as the record_request calls that made it.
OK(t, c) == [success |-> TRUE, latency |-> 20, cost |-> c, t |-> t]
KO(t) == [success |-> FALSE, latency |-> 0, cost |-> 0, t |-> t]

RECURSIVE Replay(_, _)
Replay(s, evs) ==
    IF evs = <<>> THEN s
    ELSE Replay(record_request(s, Head(evs).success, Head(evs).latency,
                               Head(evs).cost, Head(evs).t),
                Tail(evs))

History(evs) == Replay(FreshStats(evs[1].t), evs)

\* n requests a minute apart, the last one a minute before StartTime, the
\* first k of them successful
Old(i) == StartTime - i * MinuteTicks
Spaced(n, k) ==
    [i \in 1..n |-> IF i <= k THEN OK(Old(n + 1 - i), 1) ELSE KO(Old(n + 1 - i))]

OpenaiHistories ==
    {<<>>,
     <<OK(StartTime, 1)>>,
     <<OK(Old(1), CostCap)>>,
     Spaced(HealthMinRequests + 1, 0),
     Spaced(HealthMinRequests + 1, 1),
     Spaced(HealthMinRequests, 0),
     Spaced(2 * HealthMinRequests, 2)}

GeminiHistories ==
    {<<>>,
     <<KO(StartTime - 1), OK(StartTime, 1)>>}

SeedStats(h1, h2) ==
    [p \in (IF h1 = <<>> THEN {} ELSE {"openai"})
           \cup (IF h2 = <<>> THEN {} ELSE {"gemini"}) |->
        IF p = "openai" THEN History(h1) ELSE History(h2)]

NoArgs == [success |-> FALSE, latency |-> 0, cost |-> 0, at |-> 0]

IdlePStats == [s |-> FreshStats(0), prev |-> FreshStats(0), args |-> NoArgs, n |-> 0]

\* the adapter's callers
Callers == {"c1", "c2"}

IdleCaller == [pc |-> "idle", current_time |-> 0, wake_at |-> 0]

IdleLimiter == [rate_limit |-> 0, concurrent |-> FALSE, _request_times |-> <<>>,
                caller |-> [c \in Callers |-> IdleCaller], sent |-> <<>>]

IdleRetry == [pc |-> "idle", max_retries |-> 0, retry_delay |-> 0, attempt |-> 0,
              last_exception |-> None, log |-> <<>>, sleeps |-> <<>>,
              result |-> NoResult]

IdleGen == [pc |-> "idle", content |-> <<>>, error |-> None, words |-> <<>>,
            i |-> 0, chunks |-> <<>>]

\* A manager that is not initialized: newly constructed, or shut down after
\* earlier traffic (shutdown keeps the statistics).
Init ==
    /\ now = StartTime
    /\ \E lb \in BOOLEAN, fo \in FallbackOrders :
          /\ lb => fo = EnvOrder
          /\ config = [providers |-> BaseProviders,
                       keys |-> ConfigOrder,
                       fallback_order |-> fo,
                       load_balancing |-> lb,
                       version |-> 0]
    /\ \E h1 \in OpenaiHistories, h2 \in GeminiHistories : stats = SeedStats(h1, h2)
    /\ providers = <<>>
    /\ is_initialized = FALSE
    /\ lock = None
    /\ task = [t \in Tasks |-> IdleTask]
    /\ calls = 0
    /\ budget = MaxCalls
    /\ served = <<>>
    /\ gen = IdleGen
    /\ pstats = IdlePStats
    /\ retry = IdleRetry
    /\ limiter = IdleLimiter

\* (variant: the attempts on all admitted candidates are started at once)
WalkRacing(tk, from, st, cfg, reg, t) ==
    LET order == tk.order
        Stops(j) ==
            /\ InSeq(order[j], reg)
            /\ \/ order[j] \notin DOMAIN cfg.providers
               \/ _can_use_provider(StatsOf(st, order[j], t), cfg.providers[order[j]], t)
        J == {j \in from..Len(order) : Stops(j)}
        nxt == IF J = {} THEN 0 ELSE Min(J)
        upto == IF nxt = 0 THEN Len(order) ELSE nxt
        seen == {order[j] : j \in {k \in from..upto :
                      InSeq(order[k], reg) /\ order[k] \in DOMAIN cfg.providers}}
        passed == {order[j] : j \in {k \in from..upto :
                      k # nxt /\ InSeq(order[k], reg)}}
        tk1 == [tk EXCEPT !.skipped = @ \cup passed]
    IN  [stats |-> Touch(st, seen, t),
         task |->
            IF nxt = 0
            THEN IF tk.op = "generate"
                 THEN [tk1 EXCEPT !.pc = "done", !.idx = Len(order) + 1,
                          !.result = LLMResponse("failed", "",
                              <<"All providers failed. Last error: ", tk.last_error>>)]
                 ELSE [tk1 EXCEPT !.pc = "done", !.idx = Len(order) + 1,
                          !.chunks = Append(@, LLMStreamChunk("manager", TRUE,
                              "All providers failed for streaming"))]
            ELSE IF order[nxt] \notin DOMAIN cfg.providers
            THEN [tk1 EXCEPT !.pc = "done", !.idx = nxt,
                     !.result = Raised("KeyError")]
            ELSE [tk1 EXCEPT !.pc = IF tk.op = "generate" THEN "attempt" ELSE "stream",
                             !.idx = nxt, !.chunk_count = 0, !.start_time = t,
                             !.started = @ + Cardinality(J)]]

\* ---------------------------------------------------------- generate
\* The for loop of generate and of stream_generate from position from on,
\* up to the next await:
\* candidates that are not registered or not admitted are passed over, the
\* first admitted one is dispatched; with none left generate returns the
\* "failed" response and stream_generate yields its closing chunk.  A registered name without configuration raises
\* KeyError at self.config.providers[provider_name].
Walk(tk, from, st, cfg, reg, t) ==
    LET order == tk.order
        Stops(j) ==
            /\ InSeq(order[j], reg)
            /\ \/ order[j] \notin DOMAIN cfg.providers
               \/ _can_use_provider(StatsOf(st, order[j], t), cfg.providers[order[j]], t)
        J == {j \in from..Len(order) : Stops(j)}
        nxt == IF J = {} THEN 0 ELSE Min(J)
        upto == IF nxt = 0 THEN Len(order) ELSE nxt
        seen == {order[j] : j \in {k \in from..upto :
                      InSeq(order[k], reg) /\ order[k] \in DOMAIN cfg.providers}}
        passed == {order[j] : j \in {k \in from..upto :
                      k # nxt /\ InSeq(order[k], reg)}}
        tk1 == [tk EXCEPT !.skipped = @ \cup passed]
    IN  [stats |-> Touch(st, seen, t),
         task |->
            IF nxt = 0
            THEN IF tk.op = "generate"
                 THEN [tk1 EXCEPT !.pc = "done", !.idx = Len(order) + 1,
                          !.result = LLMResponse("failed", "",
                              <<"All providers failed. Last error: ", tk.last_error>>)]
                 ELSE [tk1 EXCEPT !.pc = "done", !.idx = Len(order) + 1,
                          !.chunks = Append(@, LLMStreamChunk("manager", TRUE,
                              "All providers failed for streaming"))]
            ELSE IF order[nxt] \notin DOMAIN cfg.providers
            THEN [tk1 EXCEPT !.pc = "done", !.idx = nxt,
                     !.result = Raised("KeyError")]
            ELSE [tk1 EXCEPT !.pc = IF tk.op = "generate" THEN "attempt" ELSE "stream",
                             !.idx = nxt, !.chunk_count = 0, !.start_time = t,
                             !.started = @ + 1]]

\* generate from "Determine provider order" to the first await
Route(tk, order, st, cfg, reg, t) ==
    LET st1 == IF tk.pref # None /\ InSeq(tk.pref, reg) THEN st
               ELSE IF cfg.load_balancing THEN Touch(st, Range(reg), t)
               ELSE st
    IN  Walk([tk EXCEPT !.order = order, !.last_error = None, !.stats0 = st1,
                        !.routed_at = t],
             1, st1, cfg, reg, t)

\* _get_load_balanced_order reads self.config.providers[provider_name] for
\* every registered name: a name without configuration raises KeyError
OrderRaises(pref, avail, cfg) ==
    /\ ~ (pref # None /\ InSeq(pref, avail))
    /\ cfg.load_balancing
    /\ \E i \in DOMAIN avail : avail[i] \notin DOMAIN cfg.providers

\* the ways generate can go from "Determine provider order" to its first
\* await: one for every order _get_provider_order can give, or the KeyError
\* raised while the scores are computed (the statistics of the names looked
\* at before are made)
Routings(tk, st, cfg, reg, t) ==
    IF OrderRaises(tk.pref, reg, cfg)
    THEN LET k == Min({i \in DOMAIN reg : reg[i] \notin DOMAIN cfg.providers})
         IN  {[stats |-> Touch(st, {reg[i] : i \in 1..k}, t),
               task |-> [tk EXCEPT !.pc = "done", !.result = Raised("KeyError")]]}
    ELSE {Route(tk, order, st, cfg, reg, t) :
              order \in _get_provider_order(tk.pref, reg, cfg, st, t)}

\* config.get_enabled_providers() restricted to the known provider classes,
\* in the iteration order of the configuration
EnabledQueue(cfg) ==
    SelectSeq(cfg.keys, LAMBDA p : /\ p \in DOMAIN cfg.providers
                                      /\ cfg.providers[p].enabled
                                      /\ p \in ProviderClasses)

NoProviders == LLMResponse("none", "", <<"No providers available">>)

\* (variant: the value that initialize() returns is not looked at and the
\* loop over no providers runs)
UnavailableIgnored(tk) ==
    IF tk.op = "generate"
    THEN [tk EXCEPT !.pc = "done",
             !.result = LLMResponse("failed", "",
                            <<"All providers failed. Last error: ", None>>)]
    ELSE [tk EXCEPT !.pc = "done",
             !.chunks = Append(@, LLMStreamChunk("manager", TRUE,
                                                 "All providers failed for streaming"))]

\* the return of generate, and the single chunk of stream_generate, when
\* initialize() gave False
Unavailable(tk) ==
    IF tk.op = "generate"
    THEN [tk EXCEPT !.pc = "done", !.result = NoProviders]
    ELSE [tk EXCEPT !.pc = "done",
             !.chunks = Append(@, LLMStreamChunk("manager", TRUE,
                                                 "No providers available"))]

\* the log of returned calls: who served the call, when it was routed and
\* when it returned
Returned(t) ==
    served' = IF task'[t].pc = "done"
              THEN Append(served, [provider |-> task'[t].result.provider,
                                   routed_at |-> task'[t].routed_at,
                                   at |-> now])
              ELSE served

\* (variant: initialize() does not take the lock)
LockIgnored(l) == TRUE

\* async with self._lock: the lock can be taken when nobody holds it
LockFree(l) == l = None

\* initialize() once the lock is taken, and generate after it, up to the
\* next await: an initialized manager goes on to routing; otherwise the
\* registration sequence starts, or initialize() gives False at once when
\* no provider is enabled
Enter(t, tk0) ==
    IF is_initialized
    THEN /\ \E w \in Routings(tk0, stats, config, providers, now) :
               /\ task' = [task EXCEPT ![t] = w.task]
               /\ stats' = w.stats
         /\ UNCHANGED <<providers, is_initialized, lock>>
    ELSE /\ IF EnabledQueue(config) = <<>>
            THEN /\ task' = [task EXCEPT ![t] = Unavailable(tk0)]
                 /\ UNCHANGED lock
            ELSE /\ task' = [task EXCEPT ![t] =
                        [tk0 EXCEPT !.pc = "init", !.initq = EnabledQueue(config)]]
                 /\ lock' = t
         /\ UNCHANGED <<providers, stats, is_initialized>>

\* generate(request, preferred_provider) and
\* stream_generate(request, preferred_provider) up to the first await; a
\* caller that finds the manager uninitialized and the lock held waits
Call(t, op, pref) ==
    /\ task[t].pc \in {"idle", "done"}
    /\ calls < budget
    /\ calls' = calls + 1
    /\ LET tk0 == [IdleTask EXCEPT !.op = op, !.pref = pref, !.config0 = config]
       IN  IF ~ is_initialized /\ ~ LockFree(lock)
           THEN /\ task' = [task EXCEPT ![t] = [tk0 EXCEPT !.pc = "wait", !.waited = TRUE]]
                /\ UNCHANGED <<providers, stats, is_initialized, lock>>
           ELSE Enter(t, tk0)
    /\ Returned(t)
    /\ UNCHANGED <<now, config, budget, gen, pstats, retry, limiter>>

\* a waiting caller gets the lock
Acquire(t) ==
    /\ task[t].pc = "wait"
    /\ LockFree(lock)
    /\ Enter(t, task[t])
    /\ Returned(t)
    /\ UNCHANGED <<now, config, calls, budget, gen, pstats, retry, limiter>>

\* (variant: the value that provider.initialize() returns is not looked at)
RegisteredUnlessRaised(reg, p, out) ==
    IF out # "raise" /\ ~ InSeq(p, reg) THEN Append(reg, p) ELSE reg

\* the registry after provider.initialize() of p has ended with out:
\* self.providers[name] = provider only when it returned True
Registered(reg, p, out) ==
    IF out = "true" /\ ~ InSeq(p, reg) THEN Append(reg, p) ELSE reg

\* initialize(): one await of provider.initialize() completes; after the last
\* one the lock is released and generate goes on to its first attempt
InitStep(t, out) ==
    /\ task[t].pc = "init"
    /\ LET tk == [task[t] EXCEPT !.init_log =
                       Append(@, [name |-> Head(task[t].initq), ok |-> out = "true"])]
           p == Head(tk.initq)
           reg == Registered(providers, p, out)
           rest == Tail(tk.initq)
       IN  /\ providers' = reg
           /\ IF rest # <<>>
              THEN /\ task' = [task EXCEPT ![t] = [tk EXCEPT !.initq = rest]]
                   /\ UNCHANGED <<stats, is_initialized, lock>>
              ELSE IF reg = <<>>
              THEN /\ task' = [task EXCEPT ![t] =
                          Unavailable([tk EXCEPT !.initq = rest])]
                   /\ lock' = None
                   /\ UNCHANGED <<stats, is_initialized>>
              ELSE /\ is_initialized' = TRUE
                   /\ lock' = None
                   /\ \E w \in Routings([tk EXCEPT !.initq = rest],
                                          stats, config, reg, now) :
                         /\ task' = [task EXCEPT ![t] = w.task]
                         /\ stats' = w.stats
    /\ Returned(t)
    /\ UNCHANGED <<now, config, calls, budget, gen, pstats, retry, limiter>>

\* success = response.error is None
IsSuccess(out) == out.kind = "success"

\* (variant: the except clause forgets to record the failure)
RecordedNoExcept(s, out, t) ==
    IF out.kind = "exception"
    THEN s
    ELSE record_request(s, out.kind = "success", out.latency,
                        IF out.usage = NoUsage THEN 0 ELSE out.usage, t)

\* record_request(True, latency, None): self.total_cost += cost raises
\* TypeError
RecordRaises(out) == IsSuccess(out) /\ out.usage = NoCost

\* record_request(True, latency, None) up to the statement that raises: the
\* day check, requests, the window, successes and total_latency are done,
\* the two costs are not
record_interrupted(s, latency, t) ==
    LET r == IF Date(t) > s.last_reset
             THEN [s EXCEPT !.daily_cost = 0, !.last_reset = Date(t)]
             ELSE s
    IN  [r EXCEPT !.requests = @ + 1,
                  !.recent_requests = DequeAppend(@, t),
                  !.successes = @ + 1,
                  !.total_latency = @ + latency]

\* the statistics after the attempt on a provider has ended with out:
\* record_request(success, latency, cost) for a returned response,
\* record_request(False) in the except clause, which also catches what
\* record_request raises inside the try
Recorded(s, out, t) ==
    IF out.kind = "exception"
    THEN record_request(s, FALSE, 0, 0, t)
    ELSE IF RecordRaises(out)
    THEN record_request(record_interrupted(s, out.latency, t), FALSE, 0, 0, t)
    ELSE record_request(s, IsSuccess(out), out.latency,
                        IF out.usage = NoUsage THEN 0 ELSE out.usage, t)

\* (variant: no except clause)
CaughtNothing(out) == FALSE

\* except Exception as e: what the adapter raises is caught in generate
Caught(out) == out.kind = "exception"

\* the LLMResponse that the adapter of p makes for out: the content of the
\* completion, or the error with the default content
AdapterResponse(p, out) ==
    IF out.kind = "success"
    THEN LLMResponse(p, "text", NoError)
    ELSE LLMResponse(p, "", <<out.msg>>)

\* (variant: whatever the adapter returns is handed to the caller)
ReturnsAlways(out) == TRUE

\* (variant: the return is missing)
ReturnsNever(out) == FALSE

\* if success: return response
Returns(out) == IsSuccess(out)

\* (variant: only the first error is kept)
NextErrorFirst(prev, out) == IF prev = None THEN out.msg ELSE prev

\* last_error = response.error / last_error = str(e)
NextError(prev, out) == out.msg

\* (variant: the attempt works on a copy of the statistics taken when the
\* call was routed)
CopiedStats(tk, st, p) == StatsOf(tk.stats0, p, tk.routed_at)

\* stats = self.stats[provider_name]: the statistics object shared by all
\* calls, as it is when the attempt ends
SharedStats(tk, st, p) == st[p]

\* generate from the end of an awaited provider.generate(request) to the
\* next await or to the return
AfterAttempt(tk, out, st, cfg, reg, t) ==
    LET p == tk.order[tk.idx]
        st1 == [st EXCEPT ![p] = Recorded(SharedStats(tk, st, p), out, t)]
        tk1 == [tk EXCEPT !.attempts = Append(@, [provider |-> p,
                                  kind |-> out.kind, msg |-> out.msg,
                                  usage |-> out.usage, at |-> t])]
    IN  IF out.kind = "exception" /\ ~ Caught(out)
        THEN [stats |-> st,
              task |-> [tk1 EXCEPT !.pc = "done", !.result = Raised(out.msg)]]
        ELSE IF out.kind # "exception" /\ ~ RecordRaises(out) /\ Returns(out)
        THEN [stats |-> st1,
              task |-> [tk1 EXCEPT !.pc = "done",
                                   !.result = AdapterResponse(p, out)]]
        ELSE Walk([tk1 EXCEPT !.last_error =
                       NextError(@, IF RecordRaises(out)
                                    THEN [out EXCEPT !.msg = "TypeError"]
                                    ELSE out)],
                  tk.idx + 1, st1, cfg, reg, t)

\* (variant: the return after the final chunk is missing)
AfterChunkNoReturn(tk, out, st, cfg, reg, t) ==
    LET p == tk.order[tk.idx]
        given == [tk EXCEPT !.chunk_count = @ + 1,
                     !.chunks = Append(@, LLMStreamChunk(p, out.kind = "final", out.msg))]
    IN  IF out.kind = "chunk" THEN [stats |-> st, task |-> given]
        ELSE IF out.kind = "final"
        THEN [stats |-> st, task |-> given]
        ELSE IF out.kind = "end"
        THEN Walk([tk EXCEPT !.attempts = Append(@, [provider |-> p,
                                 kind |-> "ended", msg |-> None,
                                 usage |-> NoUsage, at |-> t])],
                  tk.idx + 1, st, cfg, reg, t)
        ELSE Walk([tk EXCEPT !.attempts = Append(@, [provider |-> p,
                                 kind |-> "exception", msg |-> out.msg,
                                 usage |-> NoUsage, at |-> t])],
                  tk.idx + 1,
                  [st EXCEPT ![p] = record_request(st[p], FALSE, 0, 0, t)],
                  cfg, reg, t)

\* stream_generate from one step of the adapter's stream to the next await:
\* a chunk is passed on; a final chunk is passed on and the call waits to be
\* resumed; a stream that ends goes on to the next candidate; an exception
\* is recorded as a failure and goes on to the next candidate
AfterChunk(tk, out, st, cfg, reg, t) ==
    LET p == tk.order[tk.idx]
        given == [tk EXCEPT !.chunk_count = @ + 1,
                     !.chunks = Append(@, LLMStreamChunk(p, out.kind = "final", out.msg))]
    IN  IF out.kind = "chunk" THEN [stats |-> st, task |-> given]
        ELSE IF out.kind = "final"
        THEN [stats |-> st, task |-> [given EXCEPT !.pc = "final"]]
        ELSE IF out.kind = "end"
        THEN Walk([tk EXCEPT !.attempts = Append(@, [provider |-> p,
                                 kind |-> "ended", msg |-> None,
                                 usage |-> NoUsage, at |-> t])],
                  tk.idx + 1, st, cfg, reg, t)
        ELSE Walk([tk EXCEPT !.attempts = Append(@, [provider |-> p,
                                 kind |-> "exception", msg |-> out.msg,
                                 usage |-> NoUsage, at |-> t])],
                  tk.idx + 1,
                  [st EXCEPT ![p] = record_request(st[p], FALSE, 0, 0, t)],
                  cfg, reg, t)

\* stream_generate: the adapter's stream takes one step
StreamStep(t, out) ==
    /\ task[t].pc = "stream"
    /\ out.kind = "chunk" => task[t].chunk_count < MaxChunks
    /\ LET w == AfterChunk(task[t], out, stats, config, providers, now)
       IN  /\ stats' = w.stats
           /\ task' = [task EXCEPT ![t] = w.task]
    /\ Returned(t)
    /\ UNCHANGED <<now, config, providers, is_initialized, lock, calls, budget, gen, pstats, retry, limiter>>

\* (variant: the stream is recorded with a cost of its own)
record_stream_charged(s, ok, latency, t) == record_request(s, ok, latency, 1, t)

\* stats.record_request(success, latency): cost keeps its default, 0.0
record_stream(s, ok, latency, t) == record_request(s, ok, latency, 0, t)

\* stream_generate resumed after its final chunk: success is read from the
\* chunk's metadata, the request is recorded with the elapsed time and no
\* cost, and the call returns
StreamFinish(t, latency) ==
    /\ task[t].pc = "final"
    /\ LET tk == task[t]
           p == tk.order[tk.idx]
           ok == Last(tk.chunks).error = None
       IN  /\ stats' = [stats EXCEPT ![p] = record_stream(@, ok, latency, now)]
           /\ task' = [task EXCEPT ![t] =
                  [tk EXCEPT !.pc = "done",
                      !.attempts = Append(@, [provider |-> p,
                          kind |-> IF ok THEN "success" ELSE "error",
                          msg |-> Last(tk.chunks).error,
                          usage |-> NoUsage, at |-> now])]]
    /\ Returned(t)
    /\ UNCHANGED <<now, config, providers, is_initialized, lock, calls, budget, gen, pstats, retry, limiter>>

\* generate: the awaited provider.generate(request) ends with out
Complete(t, out) ==
    /\ task[t].pc = "attempt"
    /\ LET w == AfterAttempt(task[t], out, stats, config, providers, now)
       IN  /\ stats' = w.stats
           /\ task' = [task EXCEPT ![t] = w.task]
    /\ Returned(t)
    /\ UNCHANGED <<now, config, providers, is_initialized, lock, calls, budget, gen, pstats, retry, limiter>>

\* the wall clock advances
Tick ==
    /\ now < MaxTime
    /\ now' = now + 1
    /\ UNCHANGED <<config, providers, stats, is_initialized, lock, task, calls,
                   budget, served, gen, pstats, retry, limiter>>

Prefs == Providers \cup {None}

\* one caller issuing generate calls one after the other
Next ==
    \/ \E pref \in Prefs : Call("t1", "generate", pref)
    \/ \E out \in InitOutcomes : InitStep("t1", out)
    \/ \E out \in GenerateOutcomes : Complete("t1", out)
    \/ Tick

Spec == Init /\ [][Next]_vars

\* one caller issuing generate and stream_generate calls one after the other
NextAll ==
    \/ \E op \in {"generate", "stream"}, pref \in Prefs : Call("t1", op, pref)
    \/ \E out \in InitOutcomes : InitStep("t1", out)
    \/ \E out \in GenerateOutcomes : Complete("t1", out)
    \/ \E out \in StreamOutcomes : StreamStep("t1", out)
    \/ \E latency \in Latencies : StreamFinish("t1", latency)
    \/ Tick

SpecAll == Init /\ [][NextAll]_vars

\* ------------------------------------------- responses without a cost
\* a success response whose usage carries no estimated cost
CostlessOutcomes ==
    [kind : {"success"}, usage : {NoCost}, latency : Latencies, msg : {None}]

\* one caller issuing generate calls to adapters that may answer so
NextUsage ==
    \/ \E pref \in Prefs : Call("t1", "generate", pref)
    \/ \E out \in InitOutcomes : InitStep("t1", out)
    \/ \E out \in GenerateOutcomes \cup CostlessOutcomes : Complete("t1", out)
    \/ Tick

SpecUsage == Init /\ [][NextUsage]_vars

\* ------------------------------------------------- concurrent callers
\* every caller of Tasks makes one generate call on a new manager; the
\* calls interleave at their awaits
InitConc ==
    /\ now = StartTime
    /\ config = [providers |-> BaseProviders, keys |-> ConfigOrder,
                 fallback_order |-> EnvOrder,
                 load_balancing |-> FALSE, version |-> 0]
    /\ stats = << >>
    /\ providers = <<>>
    /\ is_initialized = FALSE
    /\ lock = None
    /\ task = [t \in Tasks |-> IdleTask]
    /\ calls = 0
    /\ budget = Cardinality(Tasks)
    /\ served = <<>>
    /\ gen = IdleGen
    /\ pstats = IdlePStats
    /\ retry = IdleRetry
    /\ limiter = IdleLimiter

NextConc ==
    \/ \E t \in Tasks, pref \in Prefs :
          task[t].pc = "idle" /\ Call(t, "generate", pref)
    \/ \E t \in Tasks : Acquire(t)
    \/ \E t \in Tasks, out \in InitOutcomes : InitStep(t, out)
    \/ \E t \in Tasks, out \in GenerateOutcomes : Complete(t, out)

SpecConc == InitConc /\ [][NextConc]_vars

\* ---------------------------------------------------- introspection
\* (variant: one entry for every provider class)
get_stats_all(st, reg, t) ==
    [p \in ProviderClasses |->
        LET s == StatsOf(st, p, t)
        IN  [requests |-> s.requests,
             successes |-> s.successes,
             failures |-> s.failures,
             success_rate |-> <<SuccessRateNum(s), SuccessRateDen(s)>>,
             avg_latency_ms |-> IF s.successes = 0 THEN <<0, 1>>
                                ELSE <<s.total_latency, s.successes>>,
             total_cost |-> s.total_cost,
             daily_cost |-> s.daily_cost,
             current_rate_per_minute |-> get_current_rate(s, t),
             is_available |-> InSeq(p, reg)]]

\* get_stats(): one entry for every name in self.stats; the rates are the
\* fractions <<numerator, denominator>>
get_stats(st, reg, t) ==
    [p \in DOMAIN st |->
        LET s == st[p]
        IN  [requests |-> s.requests,
             successes |-> s.successes,
             failures |-> s.failures,
             success_rate |-> <<SuccessRateNum(s), SuccessRateDen(s)>>,
             avg_latency_ms |-> IF s.successes = 0 THEN <<0, 1>>
                                ELSE <<s.total_latency, s.successes>>,
             total_cost |-> s.total_cost,
             daily_cost |-> s.daily_cost,
             current_rate_per_minute |-> get_current_rate(s, t),
             is_available |-> InSeq(p, reg)]]

\* get_available_providers(): list(self.providers.keys())
get_available_providers(reg) == reg

\* the caller asks for the statistics; nothing is awaited
GetStats(t) ==
    /\ task[t].pc \in {"idle", "done"}
    /\ calls < budget
    /\ calls' = calls + 1
    /\ task' = [task EXCEPT ![t] =
                   [IdleTask EXCEPT !.pc = "done", !.op = "get_stats",
                                    !.config0 = config,
                                    !.report = get_stats(stats, providers, now)]]
    /\ UNCHANGED <<now, config, providers, stats, is_initialized, lock, budget,
                   served, gen, pstats, retry, limiter>>

\* the caller asks for the names of the registered providers
GetAvailableProviders(t) ==
    /\ task[t].pc \in {"idle", "done"}
    /\ calls < budget
    /\ calls' = calls + 1
    /\ task' = [task EXCEPT ![t] =
                   [IdleTask EXCEPT !.pc = "done", !.op = "get_available_providers",
                                    !.config0 = config,
                                    !.names = get_available_providers(providers)]]
    /\ UNCHANGED <<now, config, providers, stats, is_initialized, lock, budget,
                   served, gen, pstats, retry, limiter>>

\* one caller issuing generate calls and introspection calls
NextIntro ==
    \/ \E pref \in Prefs : Call("t1", "generate", pref)
    \/ \E out \in InitOutcomes : InitStep("t1", out)
    \/ \E out \in GenerateOutcomes : Complete("t1", out)
    \/ GetStats("t1")
    \/ GetAvailableProviders("t1")
    \/ Tick

SpecIntro == Init /\ [][NextIntro]_vars

\* ------------------------------------------- configuration at runtime
DefaultRateLimit == 60

EnvPriority(p) ==
    CASE p = "openai" -> 1
      [] p = "gemini" -> 2
      [] OTHER -> 3

\* sorted(keys, key=priority): by ascending priority, equal priorities in
\* the order of keys
SortedByPriority(keys, cfgp) ==
    CHOOSE o \in PermsOf(keys) :
        \A i, j \in DOMAIN o :
            i < j =>
               \/ cfgp[o[i]].priority < cfgp[o[j]].priority
               \/ /\ cfgp[o[i]].priority = cfgp[o[j]].priority
                  /\ \E a, b \in DOMAIN keys :
                        a < b /\ keys[a] = o[i] /\ keys[b] = o[j]

\* LLMConfig.load_from_env() with the API keys of the providers in E set
load_from_env(E) ==
    LET cfgp == [p \in E |-> ProviderConfig(DefaultRateLimit, 0, EnvPriority(p))]
        keys == SelectSeq(ConfigOrder, LAMBDA p : p \in E)
    IN  [providers |-> cfgp,
         keys |-> keys,
         fallback_order |-> SortedByPriority(keys, cfgp),
         load_balancing |-> TRUE,
         version |-> 0]

\* the configuration add_provider is called with: a ProviderConfig with the
\* default values of its fields
NewProviderConfig == ProviderConfig(DefaultRateLimit, 0, 1)

add_provider(cfg, name, pc) ==
    [cfg EXCEPT
        !.providers = [q \in (DOMAIN cfg.providers) \cup {name} |->
                          IF q = name THEN pc ELSE cfg.providers[q]],
        !.keys = IF InSeq(name, @) THEN @ ELSE Append(@, name),
        !.fallback_order = IF InSeq(name, @) THEN @ ELSE Append(@, name)]

\* list.remove(x): the first occurrence goes
RemoveFirst(s, x) ==
    IF ~ InSeq(x, s) THEN s
    ELSE LET k == Min({i \in DOMAIN s : s[i] = x})
         IN  SubSeq(s, 1, k - 1) \o SubSeq(s, k + 1, Len(s))

remove_provider(cfg, name) ==
    [cfg EXCEPT
        !.providers = [q \in (DOMAIN cfg.providers) \ {name} |-> cfg.providers[q]],
        !.keys = SelectSeq(@, LAMBDA q : q # name),
        !.fallback_order = RemoveFirst(@, name)]

update_provider(cfg, name, key, value) ==
    IF name \in DOMAIN cfg.providers
    THEN [cfg EXCEPT !.providers[name] = [@ EXCEPT ![key] = value]]
    ELSE cfg

\* the updates that are made at runtime
Updates ==
    {<<"enabled", FALSE>>, <<"priority", 4>>, <<"cost_limit_per_day", 1>>}

\* the application calls add_provider, remove_provider or update_provider
AddProvider(name) ==
    /\ config.version < MaxChanges
    /\ config' = [add_provider(config, name, NewProviderConfig) EXCEPT !.version = @ + 1]
    /\ UNCHANGED <<now, providers, stats, is_initialized, lock, task, calls,
                   budget, served, gen, pstats, retry, limiter>>

RemoveProvider(name) ==
    /\ config.version < MaxChanges
    /\ config' = [remove_provider(config, name) EXCEPT !.version = @ + 1]
    /\ UNCHANGED <<now, providers, stats, is_initialized, lock, task, calls,
                   budget, served, gen, pstats, retry, limiter>>

UpdateProvider(name, u) ==
    /\ config.version < MaxChanges
    /\ config' = [update_provider(config, name, u[1], u[2]) EXCEPT !.version = @ + 1]
    /\ UNCHANGED <<now, providers, stats, is_initialized, lock, task, calls,
                   budget, served, gen, pstats, retry, limiter>>

\* a manager made with the configuration of the environment; the flag
\* load_balancing is set by the application
InitConfig ==
    /\ now = StartTime
    /\ \E E \in SUBSET Providers, lb \in BOOLEAN :
          config = [load_from_env(E) EXCEPT !.load_balancing = lb]
    /\ \E h2 \in GeminiHistories : stats = SeedStats(<<>>, h2)
    /\ providers = <<>>
    /\ is_initialized = FALSE
    /\ lock = None
    /\ task = [t \in Tasks |-> IdleTask]
    /\ calls = 0
    /\ budget = MaxCalls + 1
    /\ served = <<>>
    /\ gen = IdleGen
    /\ pstats = IdlePStats
    /\ retry = IdleRetry
    /\ limiter = IdleLimiter

\* one caller, and the application changing the configuration at any time
NextConfig ==
    \/ \E pref \in Prefs : Call("t1", "generate", pref)
    \/ \E out \in InitOutcomes : InitStep("t1", out)
    \/ \E out \in GenerateOutcomes : Complete("t1", out)
    \/ \E name \in Providers : AddProvider(name)
    \/ \E name \in Providers : RemoveProvider(name)
    \/ \E name \in Providers, u \in Updates : UpdateProvider(name, u)

SpecConfig == InitConfig /\ [][NextConfig]_vars

\* ------------------------------------------- ProviderStats on its own
\* a new object, an object with a cost recorded earlier the same day, and
\* objects whose window of recent requests is full or one short of it: n
\* successful requests of cost 1 and latency 20, all in the tick before
\* StartTime
Busy(n) ==
    [requests |-> n, successes |-> n, failures |-> 0,
     total_cost |-> n, total_latency |-> 20 * n, daily_cost |-> n,
     last_reset |-> Date(StartTime - 1),
     recent_requests |-> [i \in 1..n |-> StartTime - 1]]

StartStats ==
    {FreshStats(StartTime),
     History(<<OK(Old(1), CostCap)>>),
     Busy(WindowCap),
     Busy(WindowCap - 1)}

\* the arguments of record_request
RecordArgs == BOOLEAN \X {0, 20} \X {0, 1}

InitStats ==
    /\ now = StartTime
    /\ config = [providers |-> BaseProviders, keys |-> ConfigOrder,
                 fallback_order |-> EnvOrder,
                 load_balancing |-> TRUE, version |-> 0]
    /\ stats = << >>
    /\ providers = <<>>
    /\ is_initialized = FALSE
    /\ lock = None
    /\ task = [t \in Tasks |-> IdleTask]
    /\ calls = 0
    /\ budget = 0
    /\ served = <<>>
    /\ gen = IdleGen
    /\ \E s \in StartStats : pstats = [IdlePStats EXCEPT !.s = s, !.prev = s]
    /\ retry = IdleRetry
    /\ limiter = IdleLimiter

\* record_request(success, latency, cost) is called on the object
Record(success, latency, cost) ==
    /\ pstats.n < MaxRecords
    /\ pstats' = [s |-> record_request(pstats.s, success, latency, cost, now),
                  prev |-> pstats.s,
                  args |-> [success |-> success, latency |-> latency,
                            cost |-> cost, at |-> now],
                  n |-> pstats.n + 1]
    /\ UNCHANGED <<now, config, providers, stats, is_initialized, lock, task,
                   calls, budget, served, gen, retry, limiter>>

NextStats ==
    \/ \E a \in RecordArgs : Record(a[1], a[2], a[3])
    \/ Tick

SpecStats == InitStats /\ [][NextStats]_vars

\* ------------------------------- rate limits around the window's capacity
\* n requests recorded in the tick before StartTime on a new object: the
\* counters count all of them, the deque keeps the last WindowCap of them
Traffic(n) ==
    [Busy(n) EXCEPT !.recent_requests =
        [i \in 1..(IF n > WindowCap THEN WindowCap ELSE n) |-> StartTime - 1]]

\* configured rate limits at and just above the capacity of the window
WideLimits == {WindowCap, WindowCap + 1}

InitWindow ==
    /\ now = StartTime
    /\ \E r \in WideLimits, fo \in FallbackOrders : \E n \in {r - 1, r} :
          /\ config = [providers |-> [BaseProviders EXCEPT !["openai"].rate_limit = r,
                                                            !["openai"].cost_limit_per_day = 0],
                       keys |-> ConfigOrder,
                       fallback_order |-> fo,
                       load_balancing |-> FALSE,
                       version |-> 0]
          /\ stats = [p \in {"openai"} |-> Traffic(n)]
    /\ providers = <<>>
    /\ is_initialized = FALSE
    /\ lock = None
    /\ task = [t \in Tasks |-> IdleTask]
    /\ calls = 0
    /\ budget = MaxCalls
    /\ served = <<>>
    /\ gen = IdleGen
    /\ pstats = IdlePStats
    /\ retry = IdleRetry
    /\ limiter = IdleLimiter

SpecWindow == InitWindow /\ [][Next]_vars

\* ---------------------------------- BaseProvider._retry_with_backoff
RECURSIVE Pow2(_)
Pow2(k) == IF k = 0 THEN 1 ELSE 2 * Pow2(k - 1)

\* what one await of func(*args, **kwargs) can give: a value or an exception
RetryOutcomes == [kind : {"ok"}, v : {"r1"}] \cup [kind : {"exc"}, v : {"e1", "e2"}]

RetryDelays == {1, 2}

\* delay = self.retry_delay * (2 ** attempt)
Backoff(delay, attempt) == delay * Pow2(attempt)

\* (variant: the loop sleeps after every failure)
WaitsAlways(attempt, max_retries) == TRUE

\* if attempt < self.max_retries - 1
Waits(attempt, max_retries) == attempt < max_retries - 1

InitRetry ==
    /\ now = StartTime
    /\ config = [providers |-> BaseProviders, keys |-> ConfigOrder,
                 fallback_order |-> EnvOrder,
                 load_balancing |-> TRUE, version |-> 0]
    /\ stats = << >>
    /\ providers = <<>>
    /\ is_initialized = FALSE
    /\ lock = None
    /\ task = [t \in Tasks |-> IdleTask]
    /\ calls = 0
    /\ budget = 0
    /\ served = <<>>
    /\ gen = IdleGen
    /\ pstats = IdlePStats
    /\ \E m \in 0..MaxRetries, d \in RetryDelays :
          retry = [IdleRetry EXCEPT !.pc = "start", !.max_retries = m,
                                    !.retry_delay = d]
    /\ limiter = IdleLimiter

\* last_exception = None; for attempt in range(self.max_retries): with no
\* turn to take the function goes to `raise last_exception`, and raising
\* None is a TypeError
RetryStart ==
    /\ retry.pc = "start"
    /\ retry' = IF retry.max_retries > 0
                THEN [retry EXCEPT !.pc = "call", !.attempt = 0]
                ELSE [retry EXCEPT !.pc = "done", !.result = Raised("TypeError")]
    /\ UNCHANGED <<mgr, gen, limiter>>

\* the awaited func ends: its value is returned, or its exception is kept
\* and the loop sleeps or breaks
RetryReturn(out) ==
    /\ retry.pc = "call"
    /\ LET r == [retry EXCEPT !.log = Append(@, out)]
       IN  retry' =
              IF out.kind = "ok"
              THEN [r EXCEPT !.pc = "done",
                             !.result = [NoResult EXCEPT !.kind = "returned",
                                                         !.content = out.v]]
              ELSE IF Waits(retry.attempt, retry.max_retries)
              THEN [r EXCEPT !.pc = "sleep", !.last_exception = out.v,
                             !.sleeps = Append(@, Backoff(retry.retry_delay,
                                                          retry.attempt))]
              ELSE [r EXCEPT !.pc = "done", !.last_exception = out.v,
                             !.result = Raised(out.v)]
    /\ UNCHANGED <<mgr, gen, limiter>>

\* asyncio.sleep(delay) is over: the next turn of the loop, or the end of
\* the loop and `raise last_exception`
RetryWake ==
    /\ retry.pc = "sleep"
    /\ retry' = IF retry.attempt + 1 < retry.max_retries
                THEN [retry EXCEPT !.pc = "call", !.attempt = @ + 1]
                ELSE [retry EXCEPT !.pc = "done",
                                   !.result = Raised(retry.last_exception)]
    /\ UNCHANGED <<mgr, gen, limiter>>

NextRetry ==
    \/ RetryStart
    \/ \E out \in RetryOutcomes : RetryReturn(out)
    \/ RetryWake

SpecRetry == InitRetry /\ [][NextRetry]_vars

\* ------------------------------------ BaseProvider._rate_limit_check
\* rate limits of the adapter, and the number of requests its callers make
RateLimits == {1, 2}

\* Remove requests older than 1 minute
RecentTimes(times, current_time) ==
    SelectSeq(times, LAMBDA x : current_time - x < MinuteTicks)

\* sleep_time = 60 - (current_time - self._request_times[0])
sleep_time(times, current_time) == MinuteTicks - (current_time - times[1])

\* if len(self._request_times) >= self.rate_limit: ... if sleep_time > 0
MustSleep(times, rl, current_time) ==
    /\ Len(times) >= rl
    /\ sleep_time(times, current_time) > 0

InitLimiter ==
    /\ now = 0
    /\ config = [providers |-> BaseProviders, keys |-> ConfigOrder,
                 fallback_order |-> EnvOrder,
                 load_balancing |-> TRUE, version |-> 0]
    /\ stats = << >>
    /\ providers = <<>>
    /\ is_initialized = FALSE
    /\ lock = None
    /\ task = [t \in Tasks |-> IdleTask]
    /\ calls = 0
    /\ budget = 0
    /\ served = <<>>
    /\ gen = IdleGen
    /\ pstats = IdlePStats
    /\ retry = IdleRetry
    /\ \E rl \in RateLimits, cc \in BOOLEAN :
          limiter = [IdleLimiter EXCEPT !.rate_limit = rl, !.concurrent = cc]

\* a caller enters generate: _rate_limit_check runs to its await or, when
\* it does not sleep, to its end, and the request goes out
LimiterCheck(c) ==
    /\ limiter.caller[c].pc = "idle"
    /\ c = "c1" \/ limiter.concurrent
    /\ Len(limiter.sent)
         + Cardinality({d \in Callers : limiter.caller[d].pc = "sleep"}) < MaxRequests
    /\ LET times == RecentTimes(limiter._request_times, now)
       IN  limiter' =
              IF MustSleep(times, limiter.rate_limit, now)
              THEN [limiter EXCEPT
                       !._request_times = times,
                       !.caller[c] = [pc |-> "sleep", current_time |-> now,
                                      wake_at |-> now + sleep_time(times, now)]]
              ELSE [limiter EXCEPT
                       !._request_times = Append(times, now),
                       !.sent = Append(@, now)]
    /\ UNCHANGED <<mgr, gen, retry>>

\* asyncio.sleep(sleep_time) is over: the time read before the sleep is
\* recorded and the request goes out
LimiterWake(c) ==
    /\ limiter.caller[c].pc = "sleep"
    /\ now >= limiter.caller[c].wake_at
    /\ limiter' = [limiter EXCEPT
                      !._request_times = Append(@, limiter.caller[c].current_time),
                      !.sent = Append(@, now),
                      !.caller[c] = IdleCaller]
    /\ UNCHANGED <<mgr, gen, retry>>

NextLimiter ==
    \/ \E c \in Callers : LimiterCheck(c)
    \/ \E c \in Callers : LimiterWake(c)
    \/ Tick

SpecLimiter == InitLimiter /\ [][NextLimiter]_vars

\* --------------------------------------------- configured fallback lists
\* LLMConfig(fallback_order=[...]) and load_from_file take the list as it is
\* written: any list of provider names
OrderLists == UNION {[1..n -> Providers] : n \in 0..MaxOrder}

InitOrders ==
    /\ now = StartTime
    /\ \E lb \in BOOLEAN, fo \in OrderLists :
          config = [providers |-> BaseProviders, keys |-> ConfigOrder,
                    fallback_order |-> fo,
                    load_balancing |-> lb, version |-> 0]
    /\ stats = << >>
    /\ providers = <<>>
    /\ is_initialized = FALSE
    /\ lock = None
    /\ task = [t \in Tasks |-> IdleTask]
    /\ calls = 0
    /\ budget = MaxCalls
    /\ served = <<>>
    /\ gen = IdleGen
    /\ pstats = IdlePStats
    /\ retry = IdleRetry
    /\ limiter = IdleLimiter

SpecOrders == InitOrders /\ [][Next]_vars

\* ------------------------------------------------ a caller that goes on
\* openai is the only configured provider, with a rate limit that is never
\* reached and no cost ceiling, and comes with a history at the health
\* threshold
RecoverHistories ==
    {Spaced(HealthMinRequests + 1, 0),
     Spaced(HealthMinRequests + 1, 1),
     Spaced(HealthMinRequests, 0)}

InitRecover ==
    /\ now = StartTime
    /\ \E lb \in BOOLEAN :
          config = [providers |-> [p \in {"openai"} |-> ProviderConfig(BigRate, 0, 1)],
                    keys |-> <<"openai">>,
                    fallback_order |-> EnvOrder,
                    load_balancing |-> lb, version |-> 0]
    /\ \E h \in RecoverHistories : stats = SeedStats(h, <<>>)
    /\ providers = <<>>
    /\ is_initialized = FALSE
    /\ lock = None
    /\ task = [t \in Tasks |-> IdleTask]
    /\ calls = 0
    /\ budget = MaxCalls
    /\ served = <<>>
    /\ gen = IdleGen
    /\ pstats = IdlePStats
    /\ retry = IdleRetry
    /\ limiter = IdleLimiter

\* the caller takes the response and is ready for its next call; the
\* account of its calls starts anew
Again(t) ==
    /\ task[t].pc = "done"
    /\ task' = [task EXCEPT ![t] = IdleTask]
    /\ calls' = 0
    /\ served' = <<>>
    /\ UNCHANGED <<now, config, providers, stats, is_initialized, lock, budget, gen, pstats, retry, limiter>>

NextRecover ==
    \/ \E pref \in Prefs : Call("t1", "generate", pref)
    \/ \E out \in InitOutcomes : InitStep("t1", out)
    \/ \E out \in GenerateOutcomes : Complete("t1", out)
    \/ Again("t1")
    \/ Tick

\* the caller never stops calling and every await comes to an end
SpecRecover == InitRecover /\ [][NextRecover]_vars /\ WF_vars(NextRecover)

\* --------------------------------------------- histories at the breaker
\* openai comes with a history just below, at or beyond the health
\* threshold; the other providers are new
BreakerHistories ==
    {Spaced(HealthMinRequests + 1, 0),
     Spaced(HealthMinRequests + 1, 1),
     Spaced(HealthMinRequests, 0),
     Spaced(2 * HealthMinRequests, 2)}

InitBreaker ==
    /\ now = StartTime
    /\ \E lb \in BOOLEAN :
          config = [providers |-> BaseProviders, keys |-> ConfigOrder,
                    fallback_order |-> EnvOrder,
                    load_balancing |-> lb, version |-> 0]
    /\ \E h \in BreakerHistories : stats = SeedStats(h, <<>>)
    /\ providers = <<>>
    /\ is_initialized = FALSE
    /\ lock = None
    /\ task = [t \in Tasks |-> IdleTask]
    /\ calls = 0
    /\ budget = MaxCalls
    /\ served = <<>>
    /\ gen = IdleGen
    /\ pstats = IdlePStats
    /\ retry = IdleRetry
    /\ limiter = IdleLimiter

SpecBreaker == InitBreaker /\ [][NextAll]_vars

\* ------------------------------------------------ two-provider scenario
\* alpha is openai with rate limit L, beta is gemini with a rate limit above
\* the L + 1 calls that are made; no cost caps, no earlier traffic
ScenarioProviders(L) ==
    [p \in {"openai", "gemini"} |->
        IF p = "openai" THEN ProviderConfig(L, 0, 1) ELSE ProviderConfig(L + 2, 0, 2)]

InitScenario ==
    /\ now = StartTime
    /\ \E L \in 1..MaxL, lb \in BOOLEAN :
          /\ config = [providers |-> ScenarioProviders(L),
                       keys |-> <<"openai", "gemini">>,
                       fallback_order |-> <<"openai", "gemini">>,
                       load_balancing |-> lb, version |-> 0]
          /\ budget = L + 1
    /\ stats = << >>
    /\ providers = <<>>
    /\ is_initialized = FALSE
    /\ lock = None
    /\ task = [t \in Tasks |-> IdleTask]
    /\ calls = 0
    /\ served = <<>>
    /\ gen = IdleGen
    /\ pstats = IdlePStats
    /\ retry = IdleRetry
    /\ limiter = IdleLimiter

SuccessOutcomes == {out \in GenerateOutcomes : out.kind = "success"}

\* sequential generate calls preferring alpha, adapters that always succeed
NextScenario ==
    \/ Call("t1", "generate", "openai")
    \/ InitStep("t1", "true")
    \/ \E out \in SuccessOutcomes : Complete("t1", out)
    \/ Tick

SpecScenario == InitScenario /\ [][NextScenario]_vars

\* ------------------------------------------------ load-balanced routing
\* earlier successes with a latency of their own
OKL(t, l) == [success |-> TRUE, latency |-> l, cost |-> 0, t |-> t]

BalanceHistories ==
    {<<>>,
     <<OKL(Old(1), 0)>>,
     <<OKL(Old(1), 10)>>,
     <<OKL(Old(1), 20)>>,
     <<OKL(Old(2), 20), KO(Old(1))>>,
     <<OKL(StartTime, 10)>>,
     <<OKL(StartTime, 20)>>}

BalanceProviders ==
    [p \in Providers |->
        CASE p = "openai" -> ProviderConfig(BigRate, 0, 1)
          [] p = "gemini" -> ProviderConfig(BigRate, 0, 2)
          [] OTHER -> ProviderConfig(BigRate - 1, 0, 3)]

InitBalance ==
    /\ now = StartTime
    /\ config = [providers |-> BalanceProviders, keys |-> ConfigOrder,
                 fallback_order |-> EnvOrder,
                 load_balancing |-> TRUE, version |-> 0]
    /\ \E h1, h2 \in BalanceHistories : stats = SeedStats(h1, h2)
    /\ providers = <<>>
    /\ is_initialized = FALSE
    /\ lock = None
    /\ task = [t \in Tasks |-> IdleTask]
    /\ calls = 0
    /\ budget = MaxCalls
    /\ served = <<>>
    /\ gen = IdleGen
    /\ pstats = IdlePStats
    /\ retry = IdleRetry
    /\ limiter = IdleLimiter

\* generate calls without a preferred provider
NextBalance ==
    \/ Call("t1", "generate", None)
    \/ \E out \in InitOutcomes : InitStep("t1", out)
    \/ \E out \in GenerateOutcomes : Complete("t1", out)
    \/ Tick

SpecBalance == InitBalance /\ [][NextBalance]_vars

\* ------------------------------------------ GeminiProvider.stream_generate
\* A text is a sequence of tokens, each a word or a blank.
Blank == " "
Words == {"a", "b"}

\* str.split(): the words of a text, blanks dropped
Split(text) == SelectSeq(text, LAMBDA x : x # Blank)

\* " ".join(ws)
RECURSIVE Join(_)
Join(ws) ==
    IF ws = <<>> THEN <<>>
    ELSE IF Len(ws) = 1 THEN ws
    ELSE <<Head(ws), Blank>> \o Join(Tail(ws))

\* words[i:i+5] for a 0-based i
Slice(ws, i) ==
    SubSeq(ws, i + 1, IF i + ChunkWords <= Len(ws) THEN i + ChunkWords ELSE Len(ws))

\* (variant: the last group is not recognised when it is full)
GeminiChunkLate(ws, i) ==
    [content |-> Join(Slice(ws, i)) \o <<Blank>>,
     is_final |-> i + ChunkWords > Len(ws), error |-> None]

\* the chunk made of the words from position i on
GeminiChunk(ws, i) ==
    [content |-> Join(Slice(ws, i)) \o <<Blank>>,
     is_final |-> i + ChunkWords >= Len(ws), error |-> None]

\* the texts a full response can carry: up to MaxWords words, single blanks
\* between them or blanks doubled and in front
Padded(ws, wide) ==
    IF wide THEN <<Blank>> \o [k \in 1..(2 * Len(ws)) |->
                                  IF k % 2 = 1 THEN ws[(k + 1) \div 2] ELSE Blank]
                 \o (IF ws = <<>> THEN <<>> ELSE <<Blank>>)
    ELSE Join(ws)

WordSeqs == UNION {[1..n -> Words] : n \in 0..MaxWords}

InitGemini ==
    /\ now = StartTime
    /\ config = [providers |-> BaseProviders, keys |-> ConfigOrder,
                 fallback_order |-> EnvOrder,
                 load_balancing |-> TRUE, version |-> 0]
    /\ stats = << >>
    /\ providers = <<>>
    /\ is_initialized = FALSE
    /\ lock = None
    /\ task = [t \in Tasks |-> IdleTask]
    /\ calls = 0
    /\ budget = 0
    /\ served = <<>>
    /\ \/ \E ws \in WordSeqs, wide \in BOOLEAN :
             gen = [IdleGen EXCEPT !.pc = "called", !.content = Padded(ws, wide)]
       \/ \E e \in ErrMsgs :
             gen = [IdleGen EXCEPT !.pc = "called", !.error = e]
    /\ pstats = IdlePStats
    /\ retry = IdleRetry
    /\ limiter = IdleLimiter

\* response = await self.generate(request); an error gives the single chunk
\* that carries it, a text is split into its words
GeminiStart ==
    /\ gen.pc = "called"
    /\ gen' = IF gen.error # None
              THEN [gen EXCEPT !.pc = "done",
                       !.chunks = <<[content |-> <<>>, is_final |-> TRUE,
                                     error |-> gen.error]>>]
              ELSE [gen EXCEPT !.pc = "loop", !.words = Split(gen.content)]
    /\ UNCHANGED <<mgr, retry, limiter>>

\* one turn of for i in range(0, len(words), 5): a chunk is yielded
GeminiYield ==
    /\ gen.pc = "loop"
    /\ gen.i < Len(gen.words)
    /\ gen' = [gen EXCEPT !.chunks = Append(@, GeminiChunk(gen.words, gen.i)),
                          !.i = @ + ChunkWords]
    /\ UNCHANGED <<mgr, retry, limiter>>

\* the loop is over and the stream ends
GeminiEnd ==
    /\ gen.pc = "loop"
    /\ gen.i >= Len(gen.words)
    /\ gen' = [gen EXCEPT !.pc = "done"]
    /\ UNCHANGED <<mgr, retry, limiter>>

NextGemini == GeminiStart \/ GeminiYield \/ GeminiEnd

SpecGemini == InitGemini /\ [][NextGemini]_vars

\* =================================================================== claims
Failed(a) == a.kind \in {"error", "exception"}

CountersOf(s) == <<s.requests, s.successes, s.failures>>

\* C1: generate returns an LLMResponse to its caller and never raises,
\* whatever the adapters return or raise.
C1_NeverRaises ==
    \A t \in Tasks :
        task[t].op = "generate" =>
            /\ task[t].result.kind # "raised"
            /\ task[t].pc = "done" => task[t].result.kind = "response"

C1_Witness ==
    \E t \in Tasks :
        /\ task[t].op = "generate" /\ task[t].pc = "done"
        /\ task[t].result.kind = "response"
        /\ \E i, j \in DOMAIN task[t].attempts :
              /\ task[t].attempts[i].kind = "exception"
              /\ task[t].attempts[j].kind = "error"

\* C2: when the first attempted provider A fails and the next admissible
\* provider B succeeds, the call returns B's response (provider B, no error),
\* A's failures have grown by one and B's successes have grown by one.
C2_FallbackSuccess ==
    \A t \in Tasks :
        LET a == task[t].attempts
            before(p) == StatsOf(task[t].stats0, p, task[t].routed_at)
        IN  (/\ task[t].op = "generate"
             /\ Len(a) >= 2
             /\ Failed(a[1])
             /\ a[2].kind = "success")
            => /\ task[t].pc = "done"
               /\ task[t].result.kind = "response"
               /\ task[t].result.provider = a[2].provider
               /\ task[t].result.error = NoError
               /\ stats[a[1].provider].failures = before(a[1].provider).failures + 1
               /\ stats[a[2].provider].successes = before(a[2].provider).successes + 1

C2_Witness ==
    \E t \in Tasks :
        /\ task[t].op = "generate" /\ task[t].pc = "done"
        /\ Len(task[t].attempts) = 2
        /\ task[t].attempts[1].kind = "exception"
        /\ task[t].attempts[2].kind = "success"
        /\ task[t].result.provider = task[t].attempts[2].provider

\* C3: once an attempted provider returns a response without error, that
\* response is returned at once: no provider later in the computed order is
\* invoked and the counters of the later providers are as they were when the
\* call began.
C3_ShortCircuit ==
    \A t \in Tasks :
        task[t].op = "generate" =>
            \A i \in DOMAIN task[t].attempts :
                task[t].attempts[i].kind = "success" =>
                    LET tk == task[t]
                        p == tk.attempts[i].provider
                    IN  /\ tk.pc = "done"
                        /\ i = Len(tk.attempts)
                        /\ tk.result = LLMResponse(p, "text", NoError)
                        /\ tk.order[tk.idx] = p
                        /\ \A j \in (tk.idx + 1)..Len(tk.order) :
                              /\ \A k \in DOMAIN tk.attempts :
                                    tk.attempts[k].provider # tk.order[j]
                              /\ CountersOf(StatsOf(stats, tk.order[j], tk.routed_at))
                                 = CountersOf(StatsOf(tk.stats0, tk.order[j], tk.routed_at))

C3_Witness ==
    \E t \in Tasks :
        /\ task[t].op = "generate" /\ task[t].pc = "done"
        /\ Len(task[t].order) = 3
        /\ task[t].idx = 1
        /\ Len(task[t].attempts) = 1
        /\ task[t].attempts[1].kind = "success"

\* C4: when every attempt of a generate call fails, the call returns a
\* response with provider "failed", empty content and a non-empty error that
\* contains the error message of the last provider attempted.
C4_AllFailed ==
    \A t \in Tasks :
        LET tk == task[t]
        IN  (/\ tk.op = "generate" /\ tk.pc = "done"
             /\ tk.attempts # <<>>
             /\ \A i \in DOMAIN tk.attempts : Failed(tk.attempts[i]))
            => /\ tk.result.kind = "response"
               /\ tk.result.provider = "failed"
               /\ tk.result.content = ""
               /\ tk.result.error # NoError
               /\ \E k \in DOMAIN tk.result.error :
                     tk.result.error[k] = Last(tk.attempts).msg

C4_Witness ==
    \E t \in Tasks :
        /\ task[t].op = "generate" /\ task[t].pc = "done"
        /\ Len(task[t].attempts) = 3
        /\ \A i \in DOMAIN task[t].attempts : Failed(task[t].attempts[i])
        /\ task[t].attempts[1].msg # task[t].attempts[3].msg
        /\ task[t].result.provider = "failed"

\* requests of provider p in the minute before time t, in the statistics st
RatePerMinute(st, p, t) ==
    LET q == StatsOf(st, p, t).recent_requests
    IN  Cardinality({i \in DOMAIN q : t - q[i] < MinuteTicks})

AtRateLimit(st, p, t) == RatePerMinute(st, p, t) >= config.providers[p].rate_limit

OverDailyCost(st, p, t) ==
    /\ config.providers[p].cost_limit_per_day # 0
    /\ StatsOf(st, p, t).daily_cost >= config.providers[p].cost_limit_per_day

\* more than 10 requests and fewer than one success in ten
Unhealthy(st, p, t) ==
    LET s == StatsOf(st, p, t)
    IN  s.requests >= 11 /\ s.successes * 10 < s.requests

PassesAdmission(st, p, t) ==
    ~ AtRateLimit(st, p, t) /\ ~ OverDailyCost(st, p, t) /\ ~ Unhealthy(st, p, t)

\* the step of caller t dispatches a new attempt
Dispatches(t) ==
    /\ task'[t].pc \in {"attempt", "stream"}
    /\ task[t].pc = task'[t].pc => task[t].idx # task'[t].idx

\* the position in the order from which the step of caller t looks on
LooksFrom(t) == IF task[t].pc \in {"attempt", "stream"} THEN task[t].idx + 1 ELSE 1

\* C5: a provider whose requests-per-minute has reached its rate_limit at
\* the admission check is not attempted by generate, wherever it stands in
\* the order; the attempt goes to the next registered provider in the order
\* that passes admission.
C5_RateLimitSkip ==
    [][\A t \in Tasks :
          (task'[t].op = "generate" /\ Dispatches(t)) =>
              LET o == task'[t].order
                  p == o[task'[t].idx]
              IN  /\ ~ AtRateLimit(stats', p, now)
                  /\ PassesAdmission(stats', p, now)
                  /\ \A j \in LooksFrom(t)..(task'[t].idx - 1) :
                        InSeq(o[j], providers') => ~ PassesAdmission(stats', o[j], now)
      ]_vars

C5_Witness ==
    \E t \in Tasks :
        LET tk == task[t]
        IN  /\ tk.op = "generate" /\ tk.pc = "attempt"
            /\ tk.attempts = <<>>
            /\ tk.idx = 3
            /\ tk.pref = tk.order[1]
            /\ InSeq(tk.order[1], providers) /\ InSeq(tk.order[2], providers)
            /\ now = tk.routed_at
            /\ RatePerMinute(stats, tk.order[1], now) = config.providers[tk.order[1]].rate_limit
            /\ AtRateLimit(stats, tk.order[2], now)

\* C6: with alpha (rate limit L) and beta (rate limit above the number of
\* calls), both always succeeding, of L + 1 sequential generate calls that
\* prefer alpha and fall within one minute the first L are served by alpha
\* and the (L+1)-th by beta.
C6_RateLimitedFallback ==
    LET L == config.providers["openai"].rate_limit
    IN  \A i \in DOMAIN served :
            (served[i].routed_at - served[1].at < MinuteTicks) =>
                /\ i <= L => served[i].provider = "openai"
                /\ i = L + 1 => served[i].provider = "gemini"

C6_Witness ==
    /\ config.providers["openai"].rate_limit = 2
    /\ Len(served) = 3
    /\ served[3].routed_at - served[1].at < MinuteTicks
    /\ served[1].provider = "openai"
    /\ served[2].provider = "openai"
    /\ served[3].provider = "gemini"
    /\ served[3].at > served[1].at

\* C7: a provider with more than 10 recorded requests and fewer than one
\* success in ten is not attempted by generate or by stream_generate, in any
\* position of the order, preferred or not.
C7_CircuitBreaker ==
    [][\A t \in Tasks :
          Dispatches(t) =>
              ~ Unhealthy(stats', task'[t].order[task'[t].idx], now)
      ]_vars

C7_Witness ==
    \E t \in Tasks :
        LET tk == task[t]
        IN  /\ tk.op = "stream" /\ tk.pc = "stream"
            /\ tk.pref = "openai"
            /\ tk.order[1] = "openai"
            /\ tk.idx = 2
            /\ InSeq("openai", providers)
            /\ Unhealthy(stats, "openai", now)
            /\ stats["openai"].successes = 1
            /\ ~ AtRateLimit(stats, "openai", now)
            /\ ~ OverDailyCost(stats, "openai", now)

\* the cost that the attempt a adds to the statistics
CostOf(a) == IF a.kind = "success" /\ a.usage # NoUsage THEN a.usage ELSE 0

\* C8: when an attempt is recorded in statistics whose last_reset is earlier
\* than the current date, last_reset becomes the current date and daily_cost
\* becomes exactly the cost of that attempt (the old amount is dropped before
\* the new one is added), while total_cost keeps growing.
C8_DailyReset ==
    [][\A t \in Tasks :
          Len(task'[t].attempts) = Len(task[t].attempts) + 1 =>
              LET a == Last(task'[t].attempts)
                  p == a.provider
              IN  Date(now) > stats[p].last_reset =>
                      /\ stats'[p].last_reset = Date(now)
                      /\ stats'[p].daily_cost = CostOf(a)
                      /\ stats'[p].total_cost = stats[p].total_cost + CostOf(a)
      ]_vars

C8_Witness ==
    \E t \in Tasks :
        /\ task[t].pc = "done"
        /\ task[t].attempts # <<>>
        /\ LET a == Last(task[t].attempts)
           IN  /\ a.kind = "success" /\ a.usage = 1
               /\ a.at = now
               /\ Date(now) = 1
               /\ StatsOf(task[t].stats0, a.provider, now).last_reset < 1
               /\ StatsOf(task[t].stats0, a.provider, now).daily_cost = 1
               /\ stats[a.provider].last_reset = 1
               /\ stats[a.provider].daily_cost = 1
               /\ stats[a.provider].total_cost = 2

\* success rate and average latency as the fractions Num/Den
RateNum(s) == IF s.requests = 0 THEN 1 ELSE s.successes
RateDen(s) == IF s.requests = 0 THEN 1 ELSE s.requests
AvgNum(s) == IF s.successes = 0 THEN 0 ELSE s.total_latency
AvgDen(s) == IF s.successes = 0 THEN 1 ELSE s.successes

\* providers a and b of the order of caller t are alike but for a's lower
\* average latency, in the statistics the order was computed from
AlikeButFaster(t, a, b) ==
    LET at == task[t].routed_at
        sa == StatsOf(task[t].stats0, a, at)
        sb == StatsOf(task[t].stats0, b, at)
    IN  /\ RateNum(sa) * RateDen(sb) = RateNum(sb) * RateDen(sa)
        /\ RatePerMinute(task[t].stats0, a, at) = RatePerMinute(task[t].stats0, b, at)
        /\ config.providers[a].rate_limit = config.providers[b].rate_limit
        /\ AvgNum(sa) * AvgDen(sb) < AvgNum(sb) * AvgDen(sa)

RECURSIVE Concat(_)
Concat(cs) == IF cs = <<>> THEN <<>> ELSE Head(cs).content \o Concat(Tail(cs))

\* C10: for a successful full response of n >= 1 words the re-chunked
\* stream has ceil(n/5) chunks, exactly the last one is final, and the words
\* of the concatenated chunks are the words of the response, in order.
C10_Rechunked ==
    (gen.pc = "done" /\ gen.error = None /\ Len(Split(gen.content)) >= 1) =>
        LET n == Len(Split(gen.content))
        IN  /\ Len(gen.chunks) = (n + 4) \div 5
            /\ \A k \in DOMAIN gen.chunks :
                  gen.chunks[k].is_final <=> k = Len(gen.chunks)
            /\ Split(Concat(gen.chunks)) = Split(gen.content)

C10_Witness ==
    /\ gen.pc = "done" /\ gen.error = None
    /\ Len(Split(gen.content)) = 10
    /\ Len(gen.content) > 19
    /\ Len(gen.chunks) = 2
    /\ gen.chunks[2].is_final

\* the step of caller t walks along the order: after routing, or after an
\* attempt that did not end the call
Walks(t) ==
    /\ task'[t].order # <<>>
    /\ task'[t] # task[t]
    /\ \/ task'[t].idx # task[t].idx
       \/ task[t].pc \notin {"attempt", "stream", "final"}

\* the providers whose initialize() returned True in the sequence that
\* caller t ran
InitializedBy(t) ==
    {task[t].init_log[i].name :
        i \in {k \in DOMAIN task[t].init_log : task[t].init_log[k].ok}}

\* the invocations of initialize() of provider p, over all callers
InitCalls(p) ==
    {x \in Tasks \X (1..Len(ConfigOrder)) :
        /\ x[2] \in DOMAIN task[x[1]].init_log
        /\ task[x[1]].init_log[x[2]].name = p}

AllAttempts(Test(_)) ==
    {x \in Tasks \X (1..Len(ConfigOrder)) :
        /\ x[2] \in DOMAIN task[x[1]].attempts
        /\ Test(task[x[1]].attempts[x[2]])}

\* C12: under any interleaving of concurrent generate calls no update of
\* the statistics is lost: when all calls have returned, each provider's
\* requests, successes and failures equal the attempts made on it, those
\* that returned no error, and those that returned an error or raised.
C12_NoLostUpdate ==
    (\A t \in Tasks : task[t].pc = "done") =>
        \A p \in Providers :
            LET s == StatsOf(stats, p, now)
            IN  /\ s.requests =
                      Cardinality(AllAttempts(LAMBDA a : a.provider = p))
                /\ s.successes =
                      Cardinality(AllAttempts(LAMBDA a : a.provider = p /\ a.kind = "success"))
                /\ s.failures =
                      Cardinality(AllAttempts(LAMBDA a : a.provider = p /\ Failed(a)))

C12_Witness ==
    /\ \A t \in Tasks : task[t].pc = "done"
    /\ "openai" \in DOMAIN stats
    /\ stats["openai"].requests = 2
    /\ stats["openai"].successes = 1
    /\ stats["openai"].failures = 1
    /\ "gemini" \in DOMAIN stats
    /\ stats["gemini"].requests = 1

\* C13: within one generate call at most one attempt is in flight: the
\* attempts started exceed the attempts ended by one while the call awaits
\* an adapter and by none otherwise, also while other calls run.
C13_OneInFlight ==
    \A t \in Tasks :
        task[t].op = "generate" =>
            /\ task[t].started - Len(task[t].attempts) \in {0, 1}
            /\ task[t].started - Len(task[t].attempts) = 1 <=> task[t].pc = "attempt"

C13_Witness ==
    \E t, u \in Tasks :
        /\ t # u
        /\ task[t].pc = "attempt" /\ task[u].pc = "attempt"
        /\ task[t].started = 3 /\ Len(task[t].attempts) = 2
        /\ task[u].started = 2 /\ Len(task[u].attempts) = 1

\* C14: an attempt of generate does not stay in flight beyond the
\* provider's configured timeout: when the timeout expires the attempt ends
\* with an error response and the call goes on to return.
C14_TimeoutEndsAttempt ==
    \A t \in Tasks :
        task[t].pc = "attempt" => now - task[t].start_time <= Timeout

\* C15: stream_generate falls back like generate: a call whose last
\* consumed stream failed (error in the terminal chunk, or an exception) has
\* gone through every candidate of the order and ends with the manager's
\* closing chunk that carries the aggregated error.
C15_StreamFallback ==
    \A t \in Tasks :
        LET tk == task[t]
        IN  (/\ tk.op = "stream" /\ tk.pc = "done"
             /\ tk.attempts # <<>>
             /\ Failed(Last(tk.attempts)))
            => /\ tk.idx = Len(tk.order) + 1
               /\ Last(tk.chunks) =
                     LLMStreamChunk("manager", TRUE, "All providers failed for streaming")

\* the number of entries of the log a that satisfy Test
CountOf(a, Test(_)) == Cardinality({i \in DOMAIN a : Test(a[i])})

\* C16: every provider stream that a stream_generate call consumed to its
\* end was recorded exactly once on that provider, as a success exactly when
\* its terminal chunk carried no error, also when the stream ended without
\* an is_final chunk.
C16_StreamRecorded ==
    \A t \in Tasks :
        LET tk == task[t]
            before(p) == StatsOf(tk.stats0, p, tk.routed_at)
            after(p) == StatsOf(stats, p, tk.routed_at)
        IN  (tk.op = "stream" /\ tk.pc = "done" /\ tk.order # <<>>) =>
                \A p \in Providers :
                    /\ after(p).requests = before(p).requests
                          + CountOf(tk.attempts, LAMBDA a : a.provider = p)
                    /\ after(p).successes = before(p).successes
                          + CountOf(tk.attempts,
                                    LAMBDA a : a.provider = p /\ a.kind = "success")

\* provider p is registered and the health check of admission rejects it
RejectedForHealth(p) ==
    /\ is_initialized
    /\ InSeq(p, providers)
    /\ Unhealthy(stats, p, now)

\* generate awaits an attempt on provider p
AttemptOn(p) ==
    \E t \in Tasks :
        task[t].pc = "attempt" /\ task[t].order[task[t].idx] = p

\* C18: the circuit breaker refuses a provider only for a time: when a
\* provider is rejected for its low success rate and generate calls go on,
\* the provider is attempted again later.
C18_BreakerRecovers ==
    RejectedForHealth("openai") ~> AttemptOn("openai")

\* what the code does instead: a provider rejected for its low success rate
\* stays so, and its statistics do not change any more
C18_BreakerStays ==
    [][RejectedForHealth("openai") =>
          /\ RejectedForHealth("openai")'
          /\ stats'["openai"] = stats["openai"]]_vars

\* C19: initialize gives True exactly when some provider's initialize()
\* returned True, and the registry holds exactly the providers whose
\* initialize() returned True; a provider whose initialize() returned False
\* or raised is not registered and generate never attempts it.
C19_RegistryIsInitialized ==
    \A t \in Tasks :
        task[t].init_log # <<>> =>
            /\ Range(providers) = InitializedBy(t)
            /\ task[t].pc # "init" =>
                  /\ is_initialized <=> InitializedBy(t) # {}
                  /\ task[t].order # <<>> <=> InitializedBy(t) # {}
            /\ \A i \in DOMAIN task[t].attempts :
                  task[t].attempts[i].provider \in InitializedBy(t)

C19_Witness ==
    \E t \in Tasks :
        /\ task[t].op = "generate" /\ task[t].pc = "done"
        /\ task[t].pref = "openai"
        /\ Len(task[t].init_log) = 3
        /\ InitializedBy(t) = {"gemini"}
        /\ providers = <<"gemini">>
        /\ is_initialized
        /\ Len(task[t].attempts) = 1
        /\ task[t].attempts[1].provider = "gemini"

\* C20: when no provider could be initialized, generate invokes no adapter
\* and returns the response with provider "none", empty content and error
\* "No providers available"; stream_generate yields exactly one chunk, which
\* is final and carries that error.
C20_NoProviders ==
    \A t \in Tasks :
        (task[t].pc = "done" /\ ~ is_initialized) =>
            /\ task[t].attempts = <<>>
            /\ task[t].op = "generate" =>
                  task[t].result = LLMResponse("none", "", <<"No providers available">>)
            /\ task[t].op = "stream" =>
                  task[t].chunks =
                      <<LLMStreamChunk("manager", TRUE, "No providers available")>>

C20_Witness ==
    \E t \in Tasks :
        /\ task[t].op = "stream" /\ task[t].pc = "done"
        /\ ~ is_initialized
        /\ Len(task[t].init_log) = 3
        /\ InitializedBy(t) = {}
        /\ Len(task[t].chunks) = 1
        /\ task[t].chunks[1].is_final
        /\ task[t].chunks[1].error = "No providers available"

\* C17: the daily cost ceiling applies per day: a registered provider whose
\* rate and health checks pass is passed over by generate only for cost
\* accumulated on the current date, not for the cost of an earlier day.
C17_CostCeilingPerDay ==
    [][\A t \in Tasks :
          (task'[t].op = "generate" /\ Walks(t)) =>
              \A j \in LooksFrom(t)..(task'[t].idx - 1) :
                  LET p == task'[t].order[j]
                  IN  (/\ InSeq(p, providers')
                       /\ ~ AtRateLimit(stats', p, now)
                       /\ ~ Unhealthy(stats', p, now))
                      => StatsOf(stats', p, now).last_reset = Date(now)
      ]_vars

\* C21: a change of the configuration made while a generate call is in
\* progress does not change that call: when an awaited attempt ends, the
\* call goes on (admission decisions, next attempt, return) as it would
\* with the configuration it started with.
C21_ConfigSnapshot ==
    [][\A t \in Tasks :
          task[t].pc = "attempt" /\ task'[t] # task[t] =>
             \E out \in GenerateOutcomes :
                LET w == AfterAttempt(task[t], out, stats, task[t].config0,
                                      providers, now)
                IN  task'[t] = w.task /\ stats' = w.stats]_vars

\* C22: once update_provider has set enabled to false for a provider, no
\* call that starts afterwards attempts it: a provider under attempt is
\* enabled in the configuration the call started with.
C22_DisabledNotAttempted ==
    \A t \in Tasks :
        task[t].pc \in {"attempt", "stream"} =>
            LET p == task[t].order[task[t].idx]
            IN  p \in DOMAIN task[t].config0.providers =>
                    task[t].config0.providers[p].enabled

\* the step in which the call of t computes its provider order
Routes(t) ==
    /\ task[t].pc \in {"idle", "done", "wait", "init"}
    /\ task'[t] # task[t]
    /\ is_initialized'
    /\ task'[t].pc \notin {"wait", "init"}
    /\ task'[t].result.kind # "raised"

Ascending(order, cfgp) ==
    \A i, j \in DOMAIN order :
        i < j => cfgp[order[i]].priority <= cfgp[order[j]].priority

\* C23: with load balancing off and no preferred provider, the call that
\* initializes the manager tries the registered providers by ascending
\* priority, whatever add_provider, remove_provider and update_provider did
\* to the configuration of load_from_env before the call.
C23_PriorityOrder ==
    [][\A t \in Tasks :
          /\ Routes(t)
          /\ task'[t].init_log # <<>>
          /\ task[t].config0 = config
          /\ ~ config.load_balancing
          /\ task'[t].pref = None
          => Ascending(task'[t].order, config.providers)]_vars

\* position of x in the sequence s
IndexOf(s, x) == Min({i \in DOMAIN s : s[i] = x})

\* C24: when preferred_provider names a registered provider, the order of
\* the call starts with it and goes on with every other registered provider
\* exactly once, in the order of the registry, which is the same for every
\* call, with load balancing on or off.
C24_PreferredFirst ==
    \A t \in Tasks :
        LET tk == task[t]
        IN  (tk.pref # None /\ InSeq(tk.pref, providers) /\ tk.order # <<>>) =>
               /\ tk.order[1] = tk.pref
               /\ IsPermOf(tk.order, providers)
               /\ \A i, j \in 2..Len(tk.order) :
                     i < j => IndexOf(providers, tk.order[i])
                                 < IndexOf(providers, tk.order[j])

\* a load-balanced manager routes a call that prefers claude: the other two
\* follow in the order of the registry although gemini has the better score
C24_Witness ==
    /\ config.load_balancing
    /\ task["t1"].pc = "attempt"
    /\ task["t1"].pref = "claude"
    /\ task["t1"].order = <<"claude", "openai", "gemini">>
    /\ "openai" \in DOMAIN stats
    /\ stats["openai"].successes = 0
    /\ stats["openai"].requests = HealthMinRequests
    /\ ~ ScoreGE(stats["openai"], config.providers["openai"],
                 StatsOf(stats, "gemini", now), config.providers["gemini"], now)

\* The score of provider p for the call of t, from the statistics the call
\* was routed with, as a fraction <<numerator, denominator>>:
\* (success_rate * 100) - (avg_latency_ms / 10) - (current_rate / rate_limit * 50),
\* an average latency of 0 being counted as zero_as.
ScoreAt(t, p, zero_as) ==
    LET at == task[t].routed_at
        s == StatsOf(task[t].stats0, p, at)
        ln == IF AvgNum(s) = 0 THEN zero_as ELSE AvgNum(s)
        ld == IF AvgNum(s) = 0 THEN 1 ELSE AvgDen(s)
        cr == RatePerMinute(task[t].stats0, p, at)
        rl == config.providers[p].rate_limit
    IN  << 100 * RateNum(s) * 10 * ld * rl
             - ln * RateDen(s) * rl
             - 50 * cr * RateDen(s) * 10 * ld,
           RateDen(s) * 10 * ld * rl >>

ByScore(t, zero_as) ==
    \A i, j \in DOMAIN task[t].order :
        i < j =>
            LET a == ScoreAt(t, task[t].order[i], zero_as)
                b == ScoreAt(t, task[t].order[j], zero_as)
            IN  a[1] * b[2] >= b[1] * a[2]

\* C25 as stated: with load balancing and no preferred provider the order
\* lists the registered providers by non-increasing score, the average
\* latency of a provider without successes being 0.
C25_ScoreOrder ==
    \A t \in Tasks :
        (task[t].order # <<>> /\ task[t].pref = None /\ config.load_balancing) =>
            /\ IsPermOf(task[t].order, providers)
            /\ ByScore(t, 0)

\* C25: with load balancing and no preferred provider the order lists the
\* registered providers by non-increasing score, an average latency of 0
\* being scored as 1000 ms.
C25_ScoreOrderDefault ==
    \A t \in Tasks :
        (task[t].order # <<>> /\ task[t].pref = None /\ config.load_balancing) =>
            /\ IsPermOf(task[t].order, providers)
            /\ ByScore(t, DefaultLatency)

\* three providers are ordered, one without successes behind one whose
\* score it would beat with an average latency of 0
C25_Witness ==
    \E t \in Tasks :
        /\ task[t].pref = None /\ config.load_balancing
        /\ Len(task[t].order) = 3
        /\ ~ ByScore(t, 0)
        /\ \E i \in DOMAIN task[t].order :
              StatsOf(task[t].stats0, task[t].order[i], task[t].routed_at).successes = 0

\* what every call of record_request does: one more request, and the time
\* of the call at the end of the window (the oldest entry leaves a full one)
CountsTheRequest ==
    LET w == Append(pstats.prev.recent_requests, pstats.args.at)
    IN  /\ pstats.s.requests = pstats.prev.requests + 1
        /\ pstats.s.recent_requests =
              IF Len(w) > WindowCap THEN SubSeq(w, 2, Len(w)) ELSE w

\* the daily cost that the call finds: zero when the date of the call is
\* later than last_reset, if rollover is taken into account
DailyBefore(rollover) ==
    IF rollover /\ Date(pstats.args.at) > pstats.prev.last_reset
    THEN 0
    ELSE pstats.prev.daily_cost

RecordsAs(rollover) ==
    /\ CountsTheRequest
    /\ IF pstats.args.success
       THEN /\ pstats.s.successes = pstats.prev.successes + 1
            /\ pstats.s.failures = pstats.prev.failures
            /\ pstats.s.total_latency = pstats.prev.total_latency + pstats.args.latency
            /\ pstats.s.total_cost = pstats.prev.total_cost + pstats.args.cost
            /\ pstats.s.daily_cost = DailyBefore(rollover) + pstats.args.cost
       ELSE /\ pstats.s.failures = pstats.prev.failures + 1
            /\ pstats.s.successes = pstats.prev.successes
            /\ pstats.s.total_latency = pstats.prev.total_latency
            /\ pstats.s.total_cost = pstats.prev.total_cost
            /\ pstats.s.daily_cost = DailyBefore(rollover)

\* C26 as stated: record_request counts the request and its time; a success
\* adds to successes, cumulative latency, total_cost and daily_cost; a
\* failure adds to failures and leaves latency, total_cost and daily_cost
\* as they were.
C26_RecordRequest ==
    pstats.n > 0 => RecordsAs(FALSE)

\* C26: the same, with daily_cost first set to zero when the date of the
\* call is later than last_reset.
C26_RecordRequestRollover ==
    pstats.n > 0 => RecordsAs(TRUE)

\* a failure recorded on the day after the last reset, on an object with a
\* daily cost and a full window
C26_Witness ==
    /\ pstats.n > 0
    /\ ~ pstats.args.success
    /\ Date(pstats.args.at) > pstats.prev.last_reset
    /\ pstats.prev.daily_cost > 0
    /\ pstats.s.daily_cost = 0
    /\ Len(pstats.prev.recent_requests) = WindowCap
    /\ Len(pstats.s.recent_requests) = WindowCap

\* C27: a response returned by generate either has no error and names a
\* registered adapter as its provider, or has an error, empty content and
\* the provider "failed" or "none"; the error response of an adapter is
\* never what the caller gets.
C27_ResponseKinds ==
    \A t \in Tasks :
        (task[t].pc = "done" /\ task[t].op = "generate"
            /\ task[t].result.kind = "response") =>
           LET r == task[t].result
           IN  /\ \/ /\ r.error = NoError
                     /\ InSeq(r.provider, providers)
                  \/ /\ r.error # NoError
                     /\ r.content = ""
                     /\ r.provider \in {"failed", "none"}
               /\ \A i \in DOMAIN task[t].attempts :
                     task[t].attempts[i].kind = "error" =>
                        r # AdapterResponse(task[t].attempts[i].provider,
                                            task[t].attempts[i])

\* the last adapter answered with an error response and the caller got the
\* "failed" response that carries its message
C27_Witness ==
    \E t \in Tasks :
        /\ task[t].pc = "done" /\ task[t].op = "generate"
        /\ task[t].attempts # <<>>
        /\ Last(task[t].attempts).kind = "error"
        /\ task[t].result = LLMResponse("failed", "",
               <<"All providers failed. Last error: ", Last(task[t].attempts).msg>>)

\* C28: the re-chunked stream of a successful full response, a response with
\* empty content included, ends with a chunk marked is_final.
C28_TerminalChunk ==
    (gen.pc = "done" /\ gen.error = None) =>
        /\ gen.chunks # <<>>
        /\ Last(gen.chunks).is_final

\* the step is a call of get_stats or get_available_providers by t
Introspects(t) ==
    /\ task'[t] # task[t]
    /\ task'[t].op \in {"get_stats", "get_available_providers"}

\* C29: on a new manager that is not initialized, get_stats() and
\* get_available_providers() return without raising, report no provider and
\* start no initialization: is_initialized stays false, the registry and the
\* statistics stay empty, the lock stays free and no adapter is called.
C29_IntrospectionOnNew ==
    [][\A t \in Tasks :
          (Introspects(t) /\ ~ is_initialized /\ stats = << >> /\ providers = <<>>) =>
             /\ task'[t].pc = "done"
             /\ task'[t].result.kind # "raised"
             /\ task'[t].report = << >>
             /\ task'[t].names = <<>>
             /\ task'[t].init_log = <<>>
             /\ task'[t].attempts = <<>>
             /\ task'[t].started = 0
             /\ ~ is_initialized'
             /\ providers' = <<>>
             /\ stats' = << >>
             /\ lock' = lock]_vars

\* get_stats() has returned on the new manager
C29_Witness ==
    /\ task["t1"].pc = "done"
    /\ task["t1"].op = "get_stats"
    /\ task["t1"].report = << >>
    /\ ~ is_initialized
    /\ stats = << >>
    /\ providers = <<>>
    /\ lock = None

\* the waits retry_delay * 2^k for k = 0 .. n-1
Waited(n) == [k \in 1..n |-> retry.retry_delay * Pow2(k - 1)]

\* what C30 says of a run that is over: a successful invocation is the
\* last one and its value is returned; when all fail there are max_retries
\* of them and the exception of the last one is raised; the waits come
\* between the invocations only
RetriesAsStated ==
    /\ retry.sleeps = Waited(Len(retry.log) - 1)
    /\ \A i \in 1..(Len(retry.log) - 1) : retry.log[i].kind = "exc"
    /\ IF retry.log # <<>> /\ Last(retry.log).kind = "ok"
       THEN retry.result = [NoResult EXCEPT !.kind = "returned",
                                            !.content = Last(retry.log).v]
       ELSE /\ Len(retry.log) = retry.max_retries
            /\ retry.log # <<>>
            /\ retry.result = Raised(Last(retry.log).v)

\* C30 as stated: for every max_retries >= 0 a finished run of
\* _retry_with_backoff made exactly max_retries invocations when all failed,
\* waited retry_delay * 2^k between invocation k and k+1 and not after the
\* last, and raised the last exception; a success is returned at once.
C30_RetryBackoff ==
    retry.pc = "done" => RetriesAsStated

\* C30: the same for max_retries >= 1; with max_retries = 0 nothing is
\* invoked, nothing is waited for and TypeError is raised.
C30_RetryBackoffPositive ==
    retry.pc = "done" =>
        IF retry.max_retries >= 1
        THEN RetriesAsStated
        ELSE /\ retry.log = <<>>
             /\ retry.sleeps = <<>>
             /\ retry.result = Raised("TypeError")

\* three invocations failed with retry_delay 2: waits of 2 and 4, and the
\* exception of the third invocation is raised, not that of the first
C30_Witness ==
    /\ retry.pc = "done"
    /\ retry.max_retries = 3
    /\ retry.retry_delay = 2
    /\ Len(retry.log) = 3
    /\ retry.log[1].v = "e1"
    /\ retry.log[3].v = "e2"
    /\ retry.sleeps = <<2, 4>>
    /\ retry.result = Raised("e2")

\* C31: the order of a generate call names no provider twice, and the call
\* attempts no provider twice, whatever the preferred provider, the
\* load_balancing flag and the configured fallback_order.
C31_NoRepeat ==
    \A t \in Tasks :
        /\ \A i, j \in DOMAIN task[t].order :
              task[t].order[i] = task[t].order[j] => i = j
        /\ \A i, j \in DOMAIN task[t].attempts :
              task[t].attempts[i].provider = task[t].attempts[j].provider => i = j

\* the attempts on provider p dispatched within the last minute: those in
\* flight that started in it and those that ended in it
DispatchedTo(p) ==
      Cardinality({t \in Tasks :
            /\ task[t].pc = "attempt"
            /\ task[t].order[task[t].idx] = p
            /\ task[t].start_time > now - MinuteTicks})
    + Cardinality({x \in Tasks \X (1..Len(ConfigOrder)) :
            /\ x[2] \in DOMAIN task[x[1]].attempts
            /\ task[x[1]].attempts[x[2]].provider = p
            /\ task[x[1]].attempts[x[2]].at > now - MinuteTicks})

\* C32: with concurrent generate calls the attempts dispatched to one
\* provider within a minute never exceed its rate_limit.
C32_RateLimitConcurrent ==
    \A p \in Providers :
        p \in DOMAIN config.providers =>
            DispatchedTo(p) <= config.providers[p].rate_limit

\* C33: in sequential use, once rate_limit requests of a provider have been
\* recorded within the trailing minute the provider is not dispatched to,
\* also for a rate_limit above the capacity (100) of the window.  Under
\* SpecWindow every recorded request of the provider is at most one tick
\* old while now = StartTime, so its requests counter is that number.
C33_WideRateLimit ==
    [][\A t \in Tasks :
          (Dispatches(t) /\ now = StartTime) =>
              LET p == task'[t].order[task'[t].idx]
              IN  p \in DOMAIN stats' =>
                      stats'[p].requests < config.providers[p].rate_limit
      ]_vars

\* C34: all chunks that one stream_generate call delivers come from a single
\* source: after a chunk of one provider the call delivers no chunk of
\* another provider and no closing chunk made by the manager.
C34_SingleSource ==
    \A t \in Tasks :
        task[t].op = "stream" =>
            \A i, j \in DOMAIN task[t].chunks :
                task[t].chunks[i].src = task[t].chunks[j].src

FinalChunks(t) == {i \in DOMAIN task[t].chunks : task[t].chunks[i].is_final}

\* C35: a stream_generate call consumed to its end has delivered exactly one
\* chunk with is_final, and that chunk is the last one delivered.
C35_OneFinalLast ==
    \A t \in Tasks :
        (task[t].op = "stream" /\ task[t].pc = "done") =>
            FinalChunks(t) = {Len(task[t].chunks)} /\ task[t].chunks # <<>>

\* a call that delivered a chunk of a provider, moved on after an exception
\* and ended with the provider's final chunk
C35_Witness ==
    \E t \in Tasks :
        /\ task[t].op = "stream" /\ task[t].pc = "done"
        /\ Len(task[t].chunks) >= 2
        /\ \E i \in DOMAIN task[t].attempts : task[t].attempts[i].kind = "exception"
        /\ Last(task[t].chunks).src # "manager"
        /\ task[t].chunks[1].src # Last(task[t].chunks).src

\* a step of a stream_generate call
StreamStepOf(t) == task'[t].op = "stream" /\ task'[t] # task[t]

\* C36: stream_generate never changes a provider's total_cost or daily_cost.
C36_StreamNoCost ==
    [][\A t \in Tasks :
          StreamStepOf(t) =>
              \A p \in DOMAIN stats' :
                  /\ stats'[p].total_cost = StatsOf(stats, p, now).total_cost
                  /\ stats'[p].daily_cost = StatsOf(stats, p, now).daily_cost
      ]_vars

\* C36 (amended): stream_generate never changes total_cost and never adds to
\* daily_cost; daily_cost changes only when the attempt is the first one
\* recorded on a new day, and then it is set to 0.
C36_StreamNoCostButReset ==
    [][\A t \in Tasks :
          StreamStepOf(t) =>
              \A p \in DOMAIN stats' :
                  LET s == StatsOf(stats, p, now)
                  IN  /\ stats'[p].total_cost = s.total_cost
                      /\ stats'[p].daily_cost =
                            IF stats'[p].requests # s.requests /\ Date(now) > s.last_reset
                            THEN 0 ELSE s.daily_cost
      ]_vars

\* a finished stream_generate call whose successful attempt was recorded on
\* the day after the provider's earlier cost: the total is kept, the daily
\* bucket is empty
C36_Witness ==
    \E t \in Tasks :
        /\ task[t].op = "stream" /\ task[t].pc = "done"
        /\ task[t].attempts # <<>>
        /\ LET a == Last(task[t].attempts)
           IN  /\ a.kind = "success"
               /\ a.provider \in DOMAIN task[t].stats0
               /\ task[t].stats0[a.provider].daily_cost > 0
               /\ stats[a.provider].daily_cost = 0
               /\ stats[a.provider].total_cost = task[t].stats0[a.provider].total_cost
               /\ stats[a.provider].requests > task[t].stats0[a.provider].requests

\* C37: after remove_provider has deleted the configuration of a provider
\* that is still registered, a generate call that starts afterwards returns
\* a response instead of raising.
C37_RemovedStillServed ==
    \A t \in Tasks :
        ( /\ task[t].op = "generate" /\ task[t].pc = "done"
          /\ task[t].config0 = config
          /\ \E i \in DOMAIN providers : providers[i] \notin DOMAIN config.providers )
        => task[t].result.kind # "raised"

\* C38: each attempt of generate is recorded by exactly one record_request
\* call: requests grows by one and exactly one of successes and failures
\* grows by one; and an attempt answered by a success response ends the call
\* with a response whose error is None.
C38_RecordedOnce ==
    [][\A t \in Tasks :
          (task[t].pc = "attempt" /\ task'[t] # task[t]) =>
              LET p == task[t].order[task[t].idx]
                  a == Last(task'[t].attempts)
              IN  /\ stats'[p].requests = stats[p].requests + 1
                  /\ stats'[p].successes + stats'[p].failures
                        = stats[p].successes + stats[p].failures + 1
                  /\ a.kind = "success" =>
                        /\ task'[t].pc = "done"
                        /\ task'[t].result.error = NoError
      ]_vars

\* requests of the adapter that went out within the minute ending now
SentLastMinute == {i \in DOMAIN limiter.sent : now - limiter.sent[i] < MinuteTicks}

\* C39: the requests that get past _rate_limit_check within any minute never
\* exceed the adapter's rate limit, for sequential and for concurrent
\* callers.
C39_AdapterRateLimit ==
    limiter.rate_limit > 0 => Cardinality(SentLastMinute) <= limiter.rate_limit

====
